---- MODULE Spec2Model ----
(***************************************************************************)
(* A model of the Sanity content tool (src/src/functions/                  *)
(* SanityToolFunction.ts): the text helpers (chunkText, inferFieldType,    *)
(* extractDocumentText), the schema sampler, the document operations on    *)
(* the store and the retrieve_context assembler.                           *)
(*                                                                         *)
(* Strings are sequences of one-character strings, so that slicing,        *)
(* trimming and splitting are computed as the code computes them.          *)
(***************************************************************************)
EXTENDS Integers, Sequences, FiniteSets, TLC

VARIABLES
    text,        \* chunkText: the text argument
    maxChunkSize,\* chunkText: the maxChunkSize argument
    chunked,     \* chunkText: the call's outcome (NotCalled before the call)
    cpc,         \* chunkText: "call" before the call, "done" after it
    value,       \* inferFieldType: the value argument
    tag,         \* inferFieldType: the tag returned (NoTag before the call)
    ipc,         \* inferFieldType: "call" before the call, "done" after it
    conn,        \* settings storage: the sanity_connection section
    store,       \* the dataset: the content under each document id, or Absent
    op,          \* the tool call in flight or last returned, with its parameters
    pc,          \* the await the call in flight is suspended at; "returned"
                 \* once it has returned its envelope; "idle" between calls
    loc,         \* the locals of the call in flight
    sample,      \* getFieldTypeFromSchema's samples: the store's answer to the
                 \* sampling query, kept until the call's next store call
    sent,        \* the document or patch the call handed to the store
    result,      \* the envelope the last call returned
    docs,        \* the dataset as the read path sees it: the documents with
                 \* their fields, document i under the id "d<i>"
    ragSettings, \* settings storage: the rag_settings section
    document,    \* extractDocumentText: the doc argument, as its entries
    extracted,   \* extractDocumentText: the text returned (NotExtracted before)
    xpc,         \* extractDocumentText: "call" before the call, "done" after it
    inv,         \* concurrent retrieve_context invocations: each one's
                 \* parameters, position, locals and envelope
    storage,     \* settings storage as onSettingsForm writes it: the form
                 \* data stored under each section
    submitted,   \* onSettingsForm: the section and form data of the last
                 \* submission
    formResult   \* onSettingsForm: what the last submission returned

chunkVars == <<text, maxChunkSize, chunked, cpc>>
inferVars == <<value, tag, ipc>>
storeVars == <<conn, store, op, pc, loc, sample, sent, result>>
readVars == <<docs, ragSettings>>
extractVars == <<document, extracted, xpc>>
concVars == <<inv>>
formVars == <<storage, submitted, formResult>>
vars == <<chunkVars, inferVars, storeVars, readVars, extractVars, concVars, formVars>>

\* What the actions of one part of the program leave alone.
notChunkVars == <<inferVars, storeVars, readVars, extractVars, concVars, formVars>>
notInferVars == <<chunkVars, storeVars, readVars, extractVars, concVars, formVars>>
notStoreVars == <<chunkVars, inferVars, readVars, extractVars, concVars, formVars>>
notExtractVars == <<chunkVars, inferVars, storeVars, readVars, concVars, formVars>>
notConcVars == <<chunkVars, inferVars, storeVars, readVars, extractVars, formVars>>

(***************************************************************************)
(* Bounds of the model.                                                    *)
(***************************************************************************)
MaxTextLen == 7
MaxChunkSize == 5
MaxItems == 2
MaxBase == 1
MaxSampleLen == 2
MaxDocs == 2
MaxFields == 2

(***************************************************************************)
(* Strings.                                                                *)
(***************************************************************************)
NL == "\n"
Alphabet == {"a", ".", " ", NL}

\* All strings over Alphabet of length at most n.
StrUpTo(n) == UNION {[1..k -> Alphabet] : k \in 0..n}

\* What \s and String.prototype.trim() treat as white space.
IsWs(c) == c \in {" ", NL}

Max(a, b) == IF a >= b THEN a ELSE b
Min(a, b) == IF a <= b THEN a ELSE b

\* s.slice(from), 0-based, a negative index counting from the end.
SliceFrom(s, from) ==
    LET n == Len(s)
        f == IF from < 0 THEN Max(n + from, 0) ELSE Min(from, n)
    IN  SubSeq(s, f + 1, n)

\* s.slice(0, to), 0-based end (exclusive), a negative index counting from the end.
SliceTo(s, to) ==
    LET n == Len(s)
        e == IF to < 0 THEN Max(n + to, 0) ELSE Min(to, n)
    IN  SubSeq(s, 1, e)

Ellipsis == <<".", ".", ".">>

RECURSIVE TrimLeft(_)
TrimLeft(s) ==
    IF s # <<>> /\ IsWs(Head(s)) THEN TrimLeft(Tail(s)) ELSE s

RECURSIVE TrimRight(_)
TrimRight(s) ==
    IF s # <<>> /\ IsWs(s[Len(s)]) THEN TrimRight(SubSeq(s, 1, Len(s) - 1)) ELSE s

\* String.prototype.trim()
Trim(s) == TrimRight(TrimLeft(s))

\* The index of the last character of the run of characters satisfying the
\* test that starts at i.
RECURSIVE RunEnd(_, _, _)
RunEnd(s, i, ws) ==
    IF i < Len(s) /\ (IF ws THEN IsWs(s[i + 1]) ELSE s[i + 1] = NL)
    THEN RunEnd(s, i + 1, ws)
    ELSE i

\* text.split(/\n\n+/): p is the first index of the piece being read, q the
\* index being tried.
RECURSIVE SplitParagraphsFrom(_, _, _)
SplitParagraphsFrom(s, p, q) ==
    IF q > Len(s) THEN <<SubSeq(s, p, Len(s))>>
    ELSE IF s[q] = NL /\ q < Len(s) /\ s[q + 1] = NL
         THEN LET e == RunEnd(s, q, FALSE)
              IN  <<SubSeq(s, p, q - 1)>> \o SplitParagraphsFrom(s, e + 1, e + 1)
         ELSE SplitParagraphsFrom(s, p, q + 1)

SplitParagraphs(s) == SplitParagraphsFrom(s, 1, 1)

\* trimmed.split(/(?<=\.)\s+/)
RECURSIVE SplitSentencesFrom(_, _, _)
SplitSentencesFrom(s, p, q) ==
    IF q > Len(s) THEN <<SubSeq(s, p, Len(s))>>
    ELSE IF IsWs(s[q]) /\ q > 1 /\ s[q - 1] = "."
         THEN LET e == RunEnd(s, q, TRUE)
              IN  <<SubSeq(s, p, q - 1)>> \o SplitSentencesFrom(s, e + 1, e + 1)
         ELSE SplitSentencesFrom(s, p, q + 1)

SplitSentences(s) == SplitSentencesFrom(s, 1, 1)

(***************************************************************************)
(* chunkText.  The loop state is the code's: the chunks pushed so far and  *)
(* currentChunk; "loops" records that the hard-split loop never ends.      *)
(***************************************************************************)
LoopState(chunks, current, loops) ==
    [chunks |-> chunks, current |-> current, loops |-> loops]

\* HardSplit with the remainder cut one character too far.
RECURSIVE HardSplitDropsChar(_, _, _)
HardSplitDropsChar(chunks, remaining, m) ==
    IF Len(remaining) <= m THEN LoopState(chunks, remaining, FALSE)
    ELSE LET piece == SliceTo(remaining, m - 3) \o Ellipsis
             rest  == SliceFrom(remaining, m - 2)
         IN  IF rest = remaining
             THEN LoopState(chunks, remaining, TRUE)
             ELSE HardSplitDropsChar(Append(chunks, piece), rest, m)

\* while (remaining.length > maxChunkSize) { push(slice(0, m - 3) + '...');
\*                                           remaining = remaining.slice(m - 3) }
\* The loop does not end when an iteration leaves remaining as it was.
RECURSIVE HardSplit(_, _, _)
HardSplit(chunks, remaining, m) ==
    IF Len(remaining) <= m THEN LoopState(chunks, remaining, FALSE)
    ELSE LET piece == SliceTo(remaining, m - 3) \o Ellipsis
             rest  == SliceFrom(remaining, m - 3)
         IN  IF rest = remaining
             THEN LoopState(chunks, remaining, TRUE)
             ELSE HardSplit(Append(chunks, piece), rest, m)

\* One iteration of "for (const sentence of sentences)".
SentenceStep(st, sentence, m) ==
    IF Len(st.current) + Len(sentence) + 1 <= m
    THEN LoopState(st.chunks,
                   IF st.current # <<>> THEN st.current \o <<" ">> \o sentence
                                        ELSE sentence,
                   FALSE)
    ELSE LET flushed == IF st.current # <<>> THEN Append(st.chunks, st.current)
                                             ELSE st.chunks
         IN  IF Len(sentence) > m
             THEN HardSplit(flushed, sentence, m)
             ELSE LoopState(flushed, sentence, FALSE)

RECURSIVE SentenceLoop(_, _, _)
SentenceLoop(st, sentences, m) ==
    IF sentences = <<>> \/ st.loops THEN st
    ELSE SentenceLoop(SentenceStep(st, Head(sentences), m), Tail(sentences), m)

\* ParagraphStep that forgets the separator's two characters in the fit test.
ParagraphStepNoSeparator(st, paragraph, m) ==
    LET trimmed == Trim(paragraph)
    IN  IF trimmed = <<>> THEN st
        ELSE IF Len(st.current) + Len(trimmed) <= m
        THEN LoopState(st.chunks,
                       IF st.current # <<>> THEN st.current \o <<NL, NL>> \o trimmed
                                            ELSE trimmed,
                       FALSE)
        ELSE LET flushed == IF st.current # <<>> THEN Append(st.chunks, st.current)
                                                 ELSE st.chunks
             IN  IF Len(trimmed) <= m
                 THEN LoopState(flushed, trimmed, FALSE)
                 ELSE SentenceLoop(LoopState(flushed, <<>>, FALSE),
                                   SplitSentences(trimmed), m)

\* ParagraphStep whose fit test is strict.
ParagraphStepStrict(st, paragraph, m) ==
    LET trimmed == Trim(paragraph)
    IN  IF trimmed = <<>> THEN st
        ELSE IF Len(st.current) + Len(trimmed) + 2 < m
        THEN LoopState(st.chunks,
                       IF st.current # <<>> THEN st.current \o <<NL, NL>> \o trimmed
                                            ELSE trimmed,
                       FALSE)
        ELSE LET flushed == IF st.current # <<>> THEN Append(st.chunks, st.current)
                                                 ELSE st.chunks
             IN  IF Len(trimmed) <= m
                 THEN LoopState(flushed, trimmed, FALSE)
                 ELSE SentenceLoop(LoopState(flushed, <<>>, FALSE),
                                   SplitSentences(trimmed), m)

\* One iteration of "for (const paragraph of paragraphs)".
ParagraphStep(st, paragraph, m) ==
    LET trimmed == Trim(paragraph)
    IN  IF trimmed = <<>> THEN st
        ELSE IF Len(st.current) + Len(trimmed) + 2 <= m
        THEN LoopState(st.chunks,
                       IF st.current # <<>> THEN st.current \o <<NL, NL>> \o trimmed
                                            ELSE trimmed,
                       FALSE)
        ELSE LET flushed == IF st.current # <<>> THEN Append(st.chunks, st.current)
                                                 ELSE st.chunks
             IN  IF Len(trimmed) <= m
                 THEN LoopState(flushed, trimmed, FALSE)
                 ELSE SentenceLoop(LoopState(flushed, <<>>, FALSE),
                                   SplitSentences(trimmed), m)

RECURSIVE ParagraphLoop(_, _, _)
ParagraphLoop(st, paragraphs, m) ==
    IF paragraphs = <<>> \/ st.loops THEN st
    ELSE ParagraphLoop(ParagraphStep(st, Head(paragraphs), m), Tail(paragraphs), m)

\* ChunkText that trims a short text before returning it.
ChunkTextTrimsShort(t, m) ==
    IF t = <<>> THEN [returns |-> TRUE, chunks |-> <<>>]
    ELSE IF Len(t) <= m THEN [returns |-> TRUE, chunks |-> <<Trim(t)>>]
    ELSE LET st == ParagraphLoop(LoopState(<<>>, <<>>, FALSE), SplitParagraphs(t), m)
         IN  IF st.loops THEN [returns |-> FALSE, chunks |-> st.chunks]
             ELSE [returns |-> TRUE,
                   chunks |-> IF st.current # <<>> THEN Append(st.chunks, st.current)
                                                   ELSE st.chunks]

\* chunkText(text, maxChunkSize): [returns |-> whether the call returns,
\* chunks |-> the chunks returned].
ChunkText(t, m) ==
    IF t = <<>> THEN [returns |-> TRUE, chunks |-> <<>>]
    ELSE IF Len(t) <= m THEN [returns |-> TRUE, chunks |-> <<t>>]
    ELSE LET st == ParagraphLoop(LoopState(<<>>, <<>>, FALSE), SplitParagraphs(t), m)
         IN  IF st.loops THEN [returns |-> FALSE, chunks |-> st.chunks]
             ELSE [returns |-> TRUE,
                   chunks |-> IF st.current # <<>> THEN Append(st.chunks, st.current)
                                                   ELSE st.chunks]

(***************************************************************************)
(* Field values.  A value is what JSON gives: null or undefined, a string, *)
(* a number, a boolean, an array or an object.  Of an object the code      *)
(* reads _type, asset and current.  A _type is a plain string (tags and    *)
(* discriminators are never sliced); a string value is a character         *)
(* sequence.                                                               *)
(***************************************************************************)
Undefined == [k |-> "undefined"]
NoType == "<undefined>"
Null == [k |-> "null"]
StrV(s) == [k |-> "string", s |-> s]
\* The number whole + tenths / 10.
NumV(whole, tenths) == [k |-> "number", whole |-> whole, tenths |-> tenths]
BoolV(b) == [k |-> "boolean", b |-> b]
ArrV(items) == [k |-> "array", items |-> items]
\* type: the _type string, NoType when the object has none; asset: the kind of
\* the asset property ("undefined", "null", "string", "object" or "array");
\* current: the string of the current property, empty when the object has none
\* (the code reads current only for its truthiness and its text).
ObjV(type, asset, current) ==
    [k |-> "object", type |-> type, asset |-> asset, current |-> current]

Digits == {"0", "1", "2", "3", "4", "5", "6", "7", "8", "9"}

\* /^\d{4}-\d{2}-\d{2}(T\d{2}:\d{2})?/.test(s): the optional group never
\* decides the test.
LooksLikeDate(s) ==
    /\ Len(s) >= 10
    /\ \A i \in {1, 2, 3, 4, 6, 7, 9, 10} : s[i] \in Digits
    /\ s[5] = "-"
    /\ s[8] = "-"

\* Number.isInteger
IsInteger(v) == v.tenths = 0

\* typeof v === 'object' && v !== null
IsObjectLike(v) == v.k \in {"object", "array"}

\* firstItem._type, undefined for an array
TypeOf(v) == IF v.k = "object" THEN v.type ELSE NoType

\* JavaScript truthiness of a _type: a non-empty string.
Truthy(t) == t # NoType /\ t # ""

\* inferFieldType that tests the asset before the discriminator.
InferFieldTypeAssetFirst(v) ==
    IF v.k \in {"null", "undefined"} THEN "unknown"
    ELSE IF v.k = "string" THEN (IF LooksLikeDate(v.s) THEN "datetime" ELSE "string")
    ELSE IF v.k = "number" THEN (IF IsInteger(v) THEN "integer" ELSE "number")
    ELSE IF v.k = "boolean" THEN "boolean"
    ELSE IF v.k = "array" THEN
        IF Len(v.items) > 0 /\ IsObjectLike(v.items[1])
        THEN LET firstType == TypeOf(v.items[1])
             IN  IF firstType = "block" THEN "portableText"
                 ELSE IF firstType = "reference" THEN "array of references"
                 ELSE "array of " \o (IF Truthy(firstType) THEN firstType ELSE "objects")
        ELSE "array"
    ELSE IF v.asset \in {"object", "array"} THEN "image"
    ELSE IF v.type = "slug" THEN "slug"
    ELSE IF v.type = "image" THEN "image"
    ELSE IF v.type = "reference" THEN "reference"
    ELSE IF Truthy(v.type) THEN v.type ELSE "object"

\* inferFieldType(value)
InferFieldType(v) ==
    IF v.k \in {"null", "undefined"} THEN "unknown"
    ELSE IF v.k = "string" THEN (IF LooksLikeDate(v.s) THEN "datetime" ELSE "string")
    ELSE IF v.k = "number" THEN (IF IsInteger(v) THEN "integer" ELSE "number")
    ELSE IF v.k = "boolean" THEN "boolean"
    ELSE IF v.k = "array" THEN
        IF Len(v.items) > 0 /\ IsObjectLike(v.items[1])
        THEN LET firstType == TypeOf(v.items[1])
             IN  IF firstType = "block" THEN "portableText"
                 ELSE IF firstType = "reference" THEN "array of references"
                 ELSE "array of " \o (IF Truthy(firstType) THEN firstType ELSE "objects")
        ELSE "array"
    ELSE IF v.type = "slug" THEN "slug"
    ELSE IF v.type = "image" THEN "image"
    ELSE IF v.type = "reference" THEN "reference"
    ELSE IF v.asset \in {"object", "array"} THEN "image"
    ELSE IF Truthy(v.type) THEN v.type ELSE "object"

(***************************************************************************)
(* The values the classifier is called on.                                 *)
(***************************************************************************)
DateOnly == <<"2", "0", "2", "4", "-", "0", "1", "-", "1", "5">>
DateTime == DateOnly \o <<"T", "1", "0", ":", "0", "0", ":", "0", "0", "Z">>
StringSamples ==
    { <<>>, <<"a">>, <<"a", " ", "a", ".">>, DateOnly, DateTime,
      DateOnly \o <<" ", "a">>,
      SubSeq(DateOnly, 1, 9),
      <<"a">> \o DateOnly,
      <<"2", "0", "2", "4", "/", "0", "1", "/", "1", "5">> }
Discriminators == {"slug", "image", "reference", "block", "span", "author", ""}
AssetKinds == {"undefined", "null", "string", "object", "array"}
Scalars ==
    {Null, Undefined} \cup {StrV(s) : s \in StringSamples}
    \cup {NumV(w, t) : w \in {0, 1, 2}, t \in {0, 5}}
    \cup {BoolV(b) : b \in BOOLEAN}
Objects ==
    {ObjV(t, a, c) : t \in Discriminators \cup {NoType}, a \in AssetKinds,
                     c \in {<<>>, <<"a">>}}
\* What an array holds: a scalar, an object or an (empty) array.
Items ==
    {Null, StrV(<<"a">>), NumV(1, 0), BoolV(TRUE), ArrV(<<>>)}
    \cup {ObjV(t, "undefined", <<>>) : t \in Discriminators \cup {NoType}}
Arrays == {ArrV(items) : items \in UNION {[1..n -> Items] : n \in 0..MaxItems}}
Values == Scalars \cup Objects \cup Arrays

NoTag == "(none)"

InferCall ==
    /\ ipc = "call"
    /\ tag' = InferFieldType(value)
    /\ ipc' = "done"
    /\ UNCHANGED <<value, notInferVars>>

InferNext == InferCall

(***************************************************************************)
(* The document store and the settings storage.                            *)
(*                                                                         *)
(* A document id is a base identity with or without the reserved           *)
(* "drafts." prefix.  The dataset maps each id to the content stored under *)
(* it.  Every store call is one round trip that either answers or throws.  *)
(***************************************************************************)
Bases == 1..MaxBase
DocIds == [base : Bases, draft : BOOLEAN]
Kinds == {"post", "author"}
Absent == [type |-> "<absent>"]
Contents == [type : Kinds]

\* document_id.startsWith('drafts.') ? document_id : `drafts.${document_id}`
DraftIdOf(id) == [base |-> id.base, draft |-> TRUE]
\* document_id.replace('drafts.', '')
PublishedIdOf(id) == [base |-> id.base, draft |-> FALSE]

\* The sanity_connection section: absent, present without one of the three
\* required settings, or complete.
ConnStates == {"absent", "no project_id", "no dataset", "no api_token", "ok"}

NotConfiguredMessage ==
    "Sanity connection not configured. Please configure your Sanity settings in the app settings."
IncompleteMessage ==
    "Sanity connection incomplete. Please provide project ID, dataset, and API token."

\* getSanityClient that asks for no token.
GetSanityClientTokenOptional(c, storageOk) ==
    IF ~storageOk THEN "storage failed"
    ELSE IF c = "absent" THEN NotConfiguredMessage
    ELSE IF c \in {"no project_id", "no dataset"} THEN IncompleteMessage
    ELSE "ok"

\* getSanityClient: "ok", or the message of the error it throws.  storageOk:
\* whether storage.settings.get answered.
GetSanityClient(c, storageOk) ==
    IF ~storageOk THEN "storage failed"
    ELSE IF c = "absent" THEN NotConfiguredMessage
    ELSE IF c \in {"no project_id", "no dataset", "no api_token"} THEN IncompleteMessage
    ELSE "ok"

(***************************************************************************)
(* The schema sampler and the field resolver.                              *)
(***************************************************************************)
\* What client.fetch of the sampling query answers: it throws, or gives null,
\* or gives the field's value in up to 3 documents of the kind.
SamplePortableText == ArrV(<<ObjV("block", "undefined", <<>>)>>)
SampleArray == ArrV(<<>>)
SampleValues == {StrV(<<"a">>), SamplePortableText, SampleArray}
SampleAnswers ==
    {[k |-> "throws"], [k |-> "null"]}
    \cup {[k |-> "samples", samples |-> ss] :
            ss \in UNION {[1..n -> SampleValues] : n \in 0..MaxSampleLen}}
NoSample == [k |-> "none"]
\* The samples of one getFieldTypeFromSchema call for `field` and the tag the
\* call returned (resolveFieldValue's fieldType).
Sampled(field, answer, fieldType) ==
    [k |-> "sampled", field |-> field, answer |-> answer, fieldType |-> fieldType]

\* getFieldTypeFromSchema that lets the store's failure through.
GetFieldTypeFromSchemaThrows(answer) ==
    IF answer.k = "throws" THEN [threw |-> TRUE, type |-> "unknown"]
    ELSE IF answer.k = "samples" /\ Len(answer.samples) > 0
         THEN [threw |-> FALSE, type |-> InferFieldType(answer.samples[1])]
         ELSE [threw |-> FALSE, type |-> "unknown"]

\* getFieldTypeFromSchema that classifies the last sample.
GetFieldTypeFromSchemaLast(answer) ==
    IF answer.k = "throws" THEN [threw |-> FALSE, type |-> "unknown"]
    ELSE IF answer.k = "samples" /\ Len(answer.samples) > 0
         THEN [threw |-> FALSE,
               type |-> InferFieldType(answer.samples[Len(answer.samples)])]
         ELSE [threw |-> FALSE, type |-> "unknown"]

\* getFieldTypeFromSchema, given the store's answer to its query: threw says
\* whether the call throws to its caller, type is the tag it returns.
GetFieldTypeFromSchema(answer) ==
    IF answer.k = "throws" THEN [threw |-> FALSE, type |-> "unknown"]
    ELSE IF answer.k = "samples" /\ Len(answer.samples) > 0
         THEN [threw |-> FALSE, type |-> InferFieldType(answer.samples[1])]
         ELSE [threw |-> FALSE, type |-> "unknown"]

\* text.split('\n\n'): p is the first index of the piece being read.
RECURSIVE SplitOnBlankLine(_, _, _)
SplitOnBlankLine(s, p, q) ==
    IF q > Len(s) THEN <<SubSeq(s, p, Len(s))>>
    ELSE IF s[q] = NL /\ q < Len(s) /\ s[q + 1] = NL
         THEN <<SubSeq(s, p, q - 1)>> \o SplitOnBlankLine(s, q + 2, q + 2)
         ELSE SplitOnBlankLine(s, p, q + 1)

\* textToPortableText: one block per piece, holding one span with the trimmed
\* piece; index is the 0-based position used in _key.
TextToPortableText(t) ==
    LET pieces == SplitOnBlankLine(t, 1, 1)
    IN  [k |-> "portableText",
         blocks |-> [i \in 1..Len(pieces) |->
                        [index |-> i - 1, type |-> "block", style |-> "normal",
                         text |-> Trim(pieces[i])]]]

\* resolveFieldValue that converts unless the field is known to be a string.
ResolveFieldValueUnlessString(answer, textValue) ==
    LET fieldType == GetFieldTypeFromSchema(answer)
    IN  [threw |-> fieldType.threw,
         type  |-> fieldType.type,
         value |-> IF fieldType.type # "string"
                   THEN TextToPortableText(textValue)
                   ELSE StrV(textValue)]

\* resolveFieldValue, given the store's answer to the sampling query.
ResolveFieldValue(answer, textValue) ==
    LET fieldType == GetFieldTypeFromSchema(answer)
    IN  [threw |-> fieldType.threw,
         type  |-> fieldType.type,
         value |-> IF fieldType.type = "portableText"
                   THEN TextToPortableText(textValue)
                   ELSE StrV(textValue)]

(***************************************************************************)
(* Tool calls.  A call runs from its Call action to the action that        *)
(* returns its envelope; between two awaits it is one action.              *)
(***************************************************************************)
NoOp == [name |-> "none"]
NoLoc == [docType |-> "", body |-> Undefined, bio |-> Undefined,
          content |-> Absent]
NoSent == [k |-> "none"]
NoResult == [k |-> "none"]

Success(payload) == [k |-> "returned", success |-> TRUE, payload |-> payload]
\* {success: false, error}: thrownAt is the step whose exception the call's
\* catch turned into the envelope, "" for an envelope returned directly.
Failure(error, thrownAt) ==
    [k |-> "returned", success |-> FALSE, error |-> error, thrownAt |-> thrownAt]

\* The call returns r.
Return(r) ==
    /\ result' = r
    /\ pc' = "returned"

\* An argument the caller gave or left out.
TextArgs == {<<>>, <<"a", NL, NL, " ", "a">>}
PublishArgs == {"omitted", "false", "true"}
\* extra_fields: left out, not JSON, or a JSON object, of which the model keeps
\* the _id and _type it sets (NoId, NoType when it sets none).
NoId == [base |-> 0, draft |-> FALSE]
ExtraArgs ==
    {[k |-> "omitted"], [k |-> "malformed"]}
    \cup {[k |-> "object", id |-> NoId, type |-> t] : t \in Kinds \cup {NoType}}
    \cup {[k |-> "object", id |-> i, type |-> NoType] : i \in DocIds}

\* The call starts: getSanityClient, then the first await at `first`.
Start(first) ==
    /\ pc = "idle"
    /\ UNCHANGED <<loc, sample, sent>>
    /\ \E storageOk \in BOOLEAN :
          LET client == GetSanityClient(conn, storageOk)
          IN  IF client = "ok"
              THEN pc' = first /\ result' = NoResult
              ELSE Return(Failure(client, "getSanityClient"))
    /\ UNCHANGED <<conn, store, notStoreVars>>

\* The same for a tool that checks its arguments after getSanityClient and
\* before its first await: invalid is the error it returns then, "" when the
\* arguments pass.
StartOr(first, invalid) ==
    /\ pc = "idle"
    /\ UNCHANGED <<loc, sample, sent>>
    /\ \E storageOk \in BOOLEAN :
          LET client == GetSanityClient(conn, storageOk)
          IN  IF client # "ok" THEN Return(Failure(client, "getSanityClient"))
              ELSE IF invalid # "" THEN Return(Failure(invalid, ""))
              ELSE pc' = first /\ result' = NoResult
    /\ UNCHANGED <<conn, store, notStoreVars>>

----------------------------------------------------------------------------
\* createDocument

\* The await createDocument reaches after `after`.
CreateNext(body, bio, after) ==
    IF after = "start" /\ body # <<>> THEN "create body"
    ELSE IF after \in {"start", "create body"} /\ bio # <<>> THEN "create bio"
    ELSE "create send"

CreateDocumentCall ==
    \E type \in Kinds, publish \in PublishArgs, body \in TextArgs, bio \in TextArgs,
       extra \in ExtraArgs :
        /\ op' = [name |-> "create_document", type |-> type, publish |-> publish,
                  body |-> body, bio |-> bio, extra |-> extra]
        /\ Start(CreateNext(body, bio, "start"))

\* document.body = await this.resolveFieldValue(client, type, 'body', body)
CreateResolveBody ==
    /\ pc = "create body"
    /\ \E answer \in SampleAnswers :
          LET r == ResolveFieldValue(answer, op.body)
          IN  /\ sample' = Sampled("body", answer, r.type)
              /\ IF r.threw
                 THEN Return(Failure("store", "sample body")) /\ UNCHANGED loc
                 ELSE /\ loc' = [loc EXCEPT !.body = r.value]
                      /\ pc' = CreateNext(op.body, op.bio, "create body")
                      /\ UNCHANGED result
    /\ UNCHANGED <<conn, store, op, sent, notStoreVars>>

\* document.bio = await this.resolveFieldValue(client, type, 'bio', bio)
CreateResolveBio ==
    /\ pc = "create bio"
    /\ \E answer \in SampleAnswers :
          LET r == ResolveFieldValue(answer, op.bio)
          IN  /\ sample' = Sampled("bio", answer, r.type)
              /\ IF r.threw
                 THEN Return(Failure("store", "sample bio")) /\ UNCHANGED loc
                 ELSE /\ loc' = [loc EXCEPT !.bio = r.value]
                      /\ pc' = "create send"
                      /\ UNCHANGED result
    /\ UNCHANGED <<conn, store, op, sent, notStoreVars>>

\* The document built with Object.assign applied to an extra_fields string
\* that did not parse.
CreateDocumentBuiltAssignsRaw(call, l) ==
    LET draftId == IF call.publish \in {"omitted", "false"}
                   THEN [k |-> "prefix"] ELSE [k |-> "none"]
        parsed  == call.extra.k = "object"
    IN  [k    |-> "document",
         id   |-> IF parsed /\ call.extra.id # NoId
                  THEN [k |-> "explicit", id |-> call.extra.id] ELSE draftId,
         type |-> IF parsed /\ call.extra.type # NoType
                  THEN call.extra.type ELSE call.type,
         body |-> l.body,
         bio  |-> l.bio,
         extra |-> call.extra.k # "omitted"]

\* The document createDocument builds: _id is "none" (no _id), "prefix" (the
\* bare 'drafts.' prefix) or an explicit id; Object.assign(document, extra)
\* comes last and overrides.
CreateDocumentBuilt(call, l) ==
    LET draftId == IF call.publish \in {"omitted", "false"}
                   THEN [k |-> "prefix"] ELSE [k |-> "none"]
        parsed  == call.extra.k = "object"
    IN  [k    |-> "document",
         id   |-> IF parsed /\ call.extra.id # NoId
                  THEN [k |-> "explicit", id |-> call.extra.id] ELSE draftId,
         type |-> IF parsed /\ call.extra.type # NoType
                  THEN call.extra.type ELSE call.type,
         body |-> l.body,
         bio  |-> l.bio,
         extra |-> parsed]

\* The ids client.create may store a document under: the given id when it is
\* free; otherwise a new random id, under the prefix when one is given.
CreateTargets(doc) ==
    IF doc.id.k = "explicit"
    THEN IF store[doc.id.id] = Absent THEN {doc.id.id} ELSE {}
    ELSE {i \in DocIds :
            /\ i.draft = (doc.id.k = "prefix")
            /\ store[DraftIdOf(i)] = Absent
            /\ store[PublishedIdOf(i)] = Absent}

\* const result = await client.create(document)
CreateSend ==
    /\ pc = "create send"
    /\ LET doc == CreateDocumentBuilt(op, loc)
       IN  /\ sent' = doc
           /\ \/ /\ Return(Failure("store", "create"))
                 /\ UNCHANGED store
              \/ \E id \in CreateTargets(doc) :
                    /\ store' = [store EXCEPT ![id] = [type |-> doc.type]]
                    /\ Return(Success(id))
    /\ sample' = NoSample
    /\ UNCHANGED <<conn, op, loc, notStoreVars>>

----------------------------------------------------------------------------
\* updateDocument

\* extra_fields of updateDocument: left out, not JSON, or a JSON object.
UpdateExtraArgs ==
    {[k |-> "omitted"], [k |-> "malformed"],
     [k |-> "object", id |-> NoId, type |-> NoType]}

UpdateDocumentCall ==
    \E id \in DocIds, other \in BOOLEAN, body \in TextArgs, bio \in TextArgs,
       extra \in UpdateExtraArgs :
        /\ op' = [name |-> "update_document", id |-> id, other |-> other,
                  body |-> body, bio |-> bio, extra |-> extra]
        /\ Start("update get")

\* The updates object: which fields it sets.
UpdatesBuilt(call, l) ==
    [k |-> "patch", id |-> call.id, other |-> call.other,
     body |-> l.body, bio |-> l.bio, extra |-> call.extra.k = "object"]

\* Object.keys(updates).length === 0
NoUpdates(call) ==
    ~call.other /\ call.body = <<>> /\ call.bio = <<>> /\ call.extra.k # "object"

\* From after the await `after` to the next await of updateDocument, or to the
\* return of the "No fields to update" envelope.
UpdateContinue(after, docType, l) ==
    IF after = "update get" /\ op.body # <<>> /\ docType # ""
    THEN pc' = "update body" /\ loc' = l /\ UNCHANGED result
    ELSE IF after \in {"update get", "update body"} /\ op.bio # <<>> /\ docType # ""
    THEN /\ pc' = "update bio"
         /\ loc' = IF after = "update get" /\ op.body # <<>>
                   THEN [l EXCEPT !.body = StrV(op.body)] ELSE l
         /\ UNCHANGED result
    ELSE LET l2 == [l EXCEPT
                      !.body = IF docType = "" /\ op.body # <<>>
                               THEN StrV(op.body) ELSE @,
                      !.bio  = IF docType = "" /\ op.bio # <<>>
                               THEN StrV(op.bio) ELSE @]
         IN  /\ loc' = l2
             /\ IF NoUpdates(op)
                THEN Return(Failure("No fields to update", ""))
                ELSE pc' = "update commit" /\ UNCHANGED result

\* const existingDoc = await client.getDocument(parameters.document_id)
UpdateGetExisting ==
    /\ pc = "update get"
    /\ \/ Return(Failure("store", "getDocument")) /\ UNCHANGED loc
       \/ LET docType == IF store[op.id] = Absent THEN "" ELSE store[op.id].type
          IN  UpdateContinue("update get", docType, [loc EXCEPT !.docType = docType])
    /\ UNCHANGED <<conn, store, op, sample, sent, notStoreVars>>

UpdateResolveBody ==
    /\ pc = "update body"
    /\ \E answer \in SampleAnswers :
          LET r == ResolveFieldValue(answer, op.body)
          IN  /\ sample' = Sampled("body", answer, r.type)
              /\ IF r.threw
                 THEN Return(Failure("store", "sample body")) /\ UNCHANGED loc
                 ELSE UpdateContinue("update body", loc.docType,
                                     [loc EXCEPT !.body = r.value])
    /\ UNCHANGED <<conn, store, op, sent, notStoreVars>>

UpdateResolveBio ==
    /\ pc = "update bio"
    /\ \E answer \in SampleAnswers :
          LET r == ResolveFieldValue(answer, op.bio)
          IN  /\ sample' = Sampled("bio", answer, r.type)
              /\ IF r.threw
                 THEN Return(Failure("store", "sample bio")) /\ UNCHANGED loc
                 ELSE UpdateContinue("update bio", loc.docType,
                                     [loc EXCEPT !.bio = r.value])
    /\ UNCHANGED <<conn, store, op, sent, notStoreVars>>

\* await client.patch(id).set(updates).commit(): the store refuses a patch of
\* a document it does not hold.
UpdateCommit ==
    /\ pc = "update commit"
    /\ sent' = UpdatesBuilt(op, loc)
    /\ \/ Return(Failure("store", "patch"))
       \/ store[op.id] # Absent /\ Return(Success(op.id))
    /\ sample' = NoSample
    /\ UNCHANGED <<conn, store, op, loc, notStoreVars>>

----------------------------------------------------------------------------
\* deleteDocument

DeleteDocumentCall ==
    \E id \in DocIds :
        /\ op' = [name |-> "delete_document", id |-> id]
        /\ Start("delete send")

\* deleteDocument with the delete outside the try: the store's error reaches
\* the caller.
DeleteSendRaises ==
    /\ pc = "delete send"
    /\ \/ /\ result' = [k |-> "raised", error |-> "store"]
          /\ pc' = "raised"
          /\ UNCHANGED store
       \/ /\ store' = [store EXCEPT ![op.id] = Absent]
          /\ Return(Success(op.id))
    /\ UNCHANGED <<conn, op, loc, sample, sent, notStoreVars>>

\* await client.delete(parameters.document_id)
DeleteSend ==
    /\ pc = "delete send"
    /\ \/ Return(Failure("store", "delete")) /\ UNCHANGED store
       \/ /\ store' = [store EXCEPT ![op.id] = Absent]
          /\ Return(Success(op.id))
    /\ UNCHANGED <<conn, op, loc, sample, sent, notStoreVars>>

----------------------------------------------------------------------------
\* publishDocument

PublishDocumentCall ==
    \E id \in DocIds :
        /\ op' = [name |-> "publish_document", id |-> id]
        /\ Start("publish get")

\* The look-up that goes on with whatever the store answered.
PublishGetDraftUnchecked ==
    /\ pc = "publish get"
    /\ \/ Return(Failure("store", "getDocument")) /\ UNCHANGED loc
       \/ /\ loc' = [loc EXCEPT !.content = store[DraftIdOf(op.id)]]
          /\ pc' = "publish replace"
          /\ UNCHANGED result
    /\ UNCHANGED <<conn, store, op, sample, sent, notStoreVars>>
\* const draft = await client.getDocument(draftId)
PublishGetDraft ==
    /\ pc = "publish get"
    /\ \/ Return(Failure("store", "getDocument")) /\ UNCHANGED loc
       \/ IF store[DraftIdOf(op.id)] = Absent
          THEN /\ Return(Failure([notFound |-> DraftIdOf(op.id)], ""))
               /\ UNCHANGED loc
          ELSE /\ loc' = [loc EXCEPT !.content = store[DraftIdOf(op.id)]]
               /\ pc' = "publish replace"
               /\ UNCHANGED result
    /\ UNCHANGED <<conn, store, op, sample, sent, notStoreVars>>

\* await client.createOrReplace({...documentData, _id: publishedId})
PublishCreateOrReplace ==
    /\ pc = "publish replace"
    /\ \/ Return(Failure("store", "createOrReplace")) /\ UNCHANGED store
       \/ /\ store' = [store EXCEPT ![PublishedIdOf(DraftIdOf(op.id))] = loc.content]
          /\ pc' = "publish delete"
          /\ UNCHANGED result
    /\ UNCHANGED <<conn, op, loc, sample, sent, notStoreVars>>

\* await client.delete(draftId)
PublishDeleteDraft ==
    /\ pc = "publish delete"
    /\ \/ Return(Failure("store", "delete")) /\ UNCHANGED store
       \/ /\ store' = [store EXCEPT ![DraftIdOf(op.id)] = Absent]
          /\ Return(Success(PublishedIdOf(DraftIdOf(op.id))))
    /\ UNCHANGED <<conn, op, loc, sample, sent, notStoreVars>>

----------------------------------------------------------------------------
\* unpublishDocument

UnpublishDocumentCall ==
    \E id \in DocIds :
        /\ op' = [name |-> "unpublish_document", id |-> id]
        /\ Start("unpublish get")

\* const published = await client.getDocument(publishedId)
UnpublishGetPublished ==
    /\ pc = "unpublish get"
    /\ \/ Return(Failure("store", "getDocument")) /\ UNCHANGED loc
       \/ IF store[PublishedIdOf(op.id)] = Absent
          THEN /\ Return(Failure([notFound |-> PublishedIdOf(op.id)], ""))
               /\ UNCHANGED loc
          ELSE /\ loc' = [loc EXCEPT !.content = store[PublishedIdOf(op.id)]]
               /\ pc' = "unpublish replace"
               /\ UNCHANGED result
    /\ UNCHANGED <<conn, store, op, sample, sent, notStoreVars>>

\* await client.createOrReplace({...documentData, _id: draftId})
UnpublishCreateOrReplace ==
    /\ pc = "unpublish replace"
    /\ \/ Return(Failure("store", "createOrReplace")) /\ UNCHANGED store
       \/ /\ store' = [store EXCEPT ![DraftIdOf(PublishedIdOf(op.id))] = loc.content]
          /\ pc' = "unpublish delete"
          /\ UNCHANGED result
    /\ UNCHANGED <<conn, op, loc, sample, sent, notStoreVars>>

\* await client.delete(publishedId)
UnpublishDeletePublished ==
    /\ pc = "unpublish delete"
    /\ \/ Return(Failure("store", "delete")) /\ UNCHANGED store
       \/ /\ store' = [store EXCEPT ![PublishedIdOf(op.id)] = Absent]
          /\ Return(Success(DraftIdOf(PublishedIdOf(op.id))))
    /\ UNCHANGED <<conn, op, loc, sample, sent, notStoreVars>>

----------------------------------------------------------------------------
\* The caller has the envelope; the call and all that was local to it are gone.
EndCall ==
    /\ pc = "returned"
    /\ pc' = "idle"
    /\ op' = NoOp /\ loc' = NoLoc /\ sample' = NoSample
    /\ sent' = NoSent /\ result' = NoResult
    /\ UNCHANGED <<conn, store, notStoreVars>>

StoreNext ==
    \/ CreateDocumentCall \/ CreateResolveBody \/ CreateResolveBio \/ CreateSend
    \/ UpdateDocumentCall \/ UpdateGetExisting \/ UpdateResolveBody
    \/ UpdateResolveBio \/ UpdateCommit
    \/ DeleteDocumentCall \/ DeleteSend
    \/ PublishDocumentCall \/ PublishGetDraft \/ PublishCreateOrReplace
    \/ PublishDeleteDraft
    \/ UnpublishDocumentCall \/ UnpublishGetPublished \/ UnpublishCreateOrReplace
    \/ UnpublishDeletePublished
    \/ EndCall

(***************************************************************************)
(* The read path.  A document is its system fields and the sequence of its *)
(* other fields in the order Object.entries gives them.  Field names are   *)
(* character sequences: labels are made of them and the derived keys are   *)
(* recognised by their ending.                                             *)
(***************************************************************************)
\* An entry of a record: key and value.
Entry(key, v) == [key |-> key, value |-> v]
\* A field of a stored document: flat is what the store's pt::text() gives for
\* the value, Null unless the value is rich text.
Field(key, v, flat) == [key |-> key, value |-> v, flat |-> flat]

KeyTitle == <<"t", "i", "t", "l", "e">>
KeyName == <<"n", "a", "m", "e">>
KeyBody == <<"b", "o", "d", "y">>
KeyBio == <<"b", "i", "o">>
KeyText == <<"t", "e", "x", "t">>
\* `${key}Text`
TextSuffix == <<"T", "e", "x", "t">>

\* The fields a document of the model has: a title and a rich-text body; a
\* title and a plain text; a rich-text bio and nothing else; no field at all.
RichFlat == <<"a", "a", ".", " ", "a", "a">>
DocShapes ==
    { <<Field(KeyTitle, StrV(<<"T">>), Null),
        Field(KeyBody, SamplePortableText, StrV(RichFlat))>>,
      <<Field(KeyTitle, StrV(<<"T">>), Null),
        Field(KeyText, StrV(<<"a", "a", "a", "a">>), Null)>>,
      <<Field(KeyBio, SamplePortableText, StrV(RichFlat))>>,
      <<>> }
Datasets == UNION {[1..n -> DocShapes] : n \in 0..MaxDocs}

DigitChars == <<"0", "1", "2", "3", "4", "5", "6", "7", "8", "9">>
\* The _id, _type and _updatedAt of document i.
IdOf(i) == <<"d", DigitChars[i + 1]>>
PostType == <<"p", "o", "s", "t">>
UpdatedAt == "2024-01-15T10:00:00Z"

\* doc[key], Undefined when the record has no such key.
Lookup(entries, key) ==
    IF \E j \in 1..Len(entries) : entries[j].key = key
    THEN entries[CHOOSE j \in 1..Len(entries) : entries[j].key = key].value
    ELSE Undefined

\* parseInt(s, 10) of a string of digits.
RECURSIVE ParseInt(_)
ParseInt(s) ==
    IF s = <<>> THEN 0
    ELSE 10 * ParseInt(SubSeq(s, 1, Len(s) - 1))
         + (CHOOSE d \in 0..9 : DigitChars[d + 1] = s[Len(s)])

\* The rag_settings section: content_chunk_size is a string of digits, empty
\* when the section or the setting is absent.
NoRagSettings == [content_chunk_size |-> <<>>]
RagSettingsStates == {NoRagSettings, [content_chunk_size |-> <<"8">>]}
\* parseInt(ragSettings.content_chunk_size || '1000', 10)
ChunkSizeOf(settings) ==
    ParseInt(IF settings.content_chunk_size # <<>>
             THEN settings.content_chunk_size
             ELSE <<"1", "0", "0", "0">>)

\* An optional numeric argument.
Omitted == [given |-> FALSE]
Arg(n) == [given |-> TRUE, n |-> n]

DefaultMaxResults == 5
MaxResultsCap == 20
\* maxResults without the cap.
MaxResultsOfUncapped(arg) ==
    IF arg.given /\ arg.n # 0 THEN arg.n ELSE DefaultMaxResults

\* Math.min(parameters.max_results || 5, 20)
MaxResultsOf(arg) ==
    Min(IF arg.given /\ arg.n # 0 THEN arg.n ELSE DefaultMaxResults, MaxResultsCap)

\* Stands for JavaScript's Infinity: more than any text of the model is long.
Infinity == 1000000
\* let charBudget = maxChars > 0 ? maxChars : Infinity, with maxChars the
\* argument, or chunkSize * maxResults when it is undefined or 0.
CharBudgetOf(arg, chunkSize, maxResults) ==
    LET defaultMaxChars == chunkSize * maxResults
        maxChars == IF arg.given /\ arg.n # 0 THEN arg.n ELSE defaultMaxChars
    IN  IF maxChars > 0 THEN maxChars ELSE Infinity

\* key.endsWith(suffix)
EndsWith(s, suffix) ==
    /\ Len(s) >= Len(suffix)
    /\ SubSeq(s, Len(s) - Len(suffix) + 1, Len(s)) = suffix

LowerCase == <<"a", "b", "c", "d", "e", "f", "g", "h", "i", "j", "k", "l", "m",
               "n", "o", "p", "q", "r", "s", "t", "u", "v", "w", "x", "y", "z">>
UpperCase == <<"A", "B", "C", "D", "E", "F", "G", "H", "I", "J", "K", "L", "M",
               "N", "O", "P", "Q", "R", "S", "T", "U", "V", "W", "X", "Y", "Z">>
\* c.toUpperCase()
ToUpperCase(c) ==
    IF \E j \in 1..26 : LowerCase[j] = c
    THEN UpperCase[CHOOSE j \in 1..26 : LowerCase[j] = c]
    ELSE c

\* formatFieldLabel: the first character in upper case, then the rest with
\* every underscore replaced by a space.
FormatFieldLabel(fieldName) ==
    IF fieldName = <<>> THEN <<>>
    ELSE <<ToUpperCase(Head(fieldName))>>
         \o [j \in 1..(Len(fieldName) - 1) |->
                IF fieldName[j + 1] = "_" THEN " " ELSE fieldName[j + 1]]

\* sections.join('\n\n')
RECURSIVE Join(_)
Join(sections) ==
    IF sections = <<>> THEN <<>>
    ELSE IF Len(sections) = 1 THEN sections[1]
    ELSE sections[1] \o <<NL, NL>> \o Join(Tail(sections))

\* The entries retrieveContext and getDocumentText put in ptTextFields: key
\* ends with Text and the value is a string.
PtTextFields(entries) ==
    SelectSeq(entries, LAMBDA e : EndsWith(e.key, TextSuffix) /\ e.value.k = "string")

\* const systemFields = new Set([...])
SystemFields ==
    { <<"_", "i", "d">>, <<"_", "t", "y", "p", "e">>, <<"_", "r", "e", "v">>,
      <<"_", "c", "r", "e", "a", "t", "e", "d", "A", "t">>,
      <<"_", "u", "p", "d", "a", "t", "e", "d", "A", "t">>,
      <<"_", "k", "e", "y">> }

\* extractDocumentText's loop body that takes the current property of any
\* object.
SectionOfAnyCurrent(e, ptTextFields) ==
    LET pt == Lookup(ptTextFields, e.key \o TextSuffix)
        label == FormatFieldLabel(e.key) \o <<":", " ">>
    IN  IF e.key \in SystemFields THEN <<>>
        ELSE IF pt.k = "string" /\ pt.s # <<>>
        THEN (IF Trim(pt.s) # <<>> THEN <<label \o Trim(pt.s)>> ELSE <<>>)
        ELSE IF e.value.k = "string" /\ Trim(e.value.s) # <<>>
             THEN <<label \o Trim(e.value.s)>>
        ELSE IF e.value.k = "object" /\ e.value.current # <<>>
             THEN <<label \o e.value.current>>
        ELSE <<>>

\* The section extractDocumentText pushes for one entry, <<>> when it pushes
\* none.
SectionOf(e, ptTextFields) ==
    LET pt == Lookup(ptTextFields, e.key \o TextSuffix)
        label == FormatFieldLabel(e.key) \o <<":", " ">>
    IN  IF e.key \in SystemFields THEN <<>>
        ELSE IF pt.k = "string" /\ pt.s # <<>>
        THEN (IF Trim(pt.s) # <<>> THEN <<label \o Trim(pt.s)>> ELSE <<>>)
        ELSE IF e.value.k = "string" /\ Trim(e.value.s) # <<>>
             THEN <<label \o Trim(e.value.s)>>
        ELSE IF e.value.k = "object" /\ e.value.type = "slug"
                /\ e.value.current # <<>>
             THEN <<label \o e.value.current>>
        ELSE <<>>

RECURSIVE Sections(_, _)
Sections(entries, ptTextFields) ==
    IF entries = <<>> THEN <<>>
    ELSE SectionOf(Head(entries), ptTextFields) \o Sections(Tail(entries), ptTextFields)

\* extractDocumentText(doc, ptTextFields)
ExtractDocumentText(entries, ptTextFields) == Join(Sections(entries, ptTextFields))

\* buildTextExtractionProjection: the names of the fields whose value is
\* classified portableText, for each of which the projection adds the entry
\* "<name>Text": pt::text(<name>).
BuildTextExtractionProjection(entries) ==
    LET pt == SelectSeq(entries, LAMBDA e : InferFieldType(e.value) = "portableText")
    IN  [j \in 1..Len(pt) |-> pt[j].key]

----------------------------------------------------------------------------
\* What the store answers to the read path's queries.

\* client.getDocument(id) of document i: the record without derived entries.
StoredEntries(fields) == [j \in 1..Len(fields) |-> Entry(fields[j].key, fields[j].value)]

\* pt::text(<name>) on a document: the flattened text of that field, null
\* when the document has no such field or the field is not rich text.
PtText(fields, name) ==
    IF \E j \in 1..Len(fields) : fields[j].key = name
    THEN fields[CHOOSE j \in 1..Len(fields) : fields[j].key = name].flat
    ELSE Null

\* The record of a query that flattens every document by its own rich-text
\* fields.
FetchedByOwnFields(i, fields, projection) ==
    LET own == BuildTextExtractionProjection(StoredEntries(fields))
    IN  [id |-> IdOf(i), type |-> PostType, updatedAt |-> UpdatedAt,
         entries |-> StoredEntries(fields)
                     \o [j \in 1..Len(own) |->
                            Entry(own[j] \o TextSuffix, PtText(fields, own[j]))]]

\* Document i as `*[_id in $ids]{ ..., "<name>Text": pt::text(<name>) }` gives
\* it: its own entries, then one derived entry per name of the projection.
Fetched(i, fields, projection) ==
    [id |-> IdOf(i), type |-> PostType, updatedAt |-> UpdatedAt,
     entries |-> StoredEntries(fields)
                 \o [j \in 1..Len(projection) |->
                        Entry(projection[j] \o TextSuffix, PtText(fields, projection[j]))]]

\* One result of the ranking query: { _id, _type, _score, _updatedAt, title, name }
SearchHit(i, fields, score) ==
    [doc |-> i, id |-> IdOf(i), type |-> PostType, score |-> score,
     updatedAt |-> UpdatedAt,
     title |-> Lookup(fields, KeyTitle), name |-> Lookup(fields, KeyName)]

\* The _score values of the model.
Scores == {1, 2}

Injective(f) == \A a, b \in DOMAIN f : a # b => f[a] # f[b]

\* The answers of the ranking query `... | order(_score desc) [0...maxResults]`:
\* any documents of the dataset, no two the same, at most maxResults of them,
\* with scores that do not increase.
Rankings(ds, maxResults) ==
    LET picks == UNION {[1..n -> (1..Len(ds)) \X Scores] :
                           n \in 0..Min(maxResults, Len(ds))}
    IN  {[j \in 1..Len(r) |-> SearchHit(r[j][1], ds[r[j][1]], r[j][2])] :
            r \in {q \in picks :
                     /\ Injective([j \in 1..Len(q) |-> q[j][1]])
                     /\ \A j \in 1..(Len(q) - 1) : q[j][2] >= q[j + 1][2]}}

\* The orders in which the store may return n records.
Orders(n) == {p \in [1..n -> 1..n] : Injective(p)}

----------------------------------------------------------------------------
\* retrieveContext, step 3: the assembly loop.

\* `[${docType}] ${docTitle} (ID: ${docId})`
Header(docType, docTitle, docId) ==
    <<"[">> \o docType \o <<"]", " ">> \o docTitle
    \o <<" ", "(", "I", "D", ":", " ">> \o docId \o <<")">>

NoMeta == [score |-> 0, updatedAt |-> "", title |-> Undefined, name |-> Undefined]
\* searchMeta[docId] || {}
MetaOf(searchResults, docId) ==
    IF \E j \in 1..Len(searchResults) : searchResults[j].id = docId
    THEN searchResults[CHOOSE j \in 1..Len(searchResults) : searchResults[j].id = docId]
    ELSE NoMeta

\* meta.title || meta.name || doc.title || doc.name || '' (the titles and
\* names of the model are strings or absent).
TitleOf(meta, entries) ==
    LET cands == <<meta.title, meta.name, Lookup(entries, KeyTitle),
                   Lookup(entries, KeyName)>>
        good == SelectSeq(cands, LAMBDA v : v.k = "string" /\ v.s # <<>>)
    IN  IF good = <<>> THEN <<>> ELSE good[1].s

\* The loop state: allChunks, charBudget, sourcesUsed; hangs records that a
\* chunkText call never returned.
Assembly(chunks, charBudget, sourcesUsed, hangs) ==
    [chunks |-> chunks, charBudget |-> charBudget, sourcesUsed |-> sourcesUsed,
     hangs |-> hangs]

\* The loop that cuts a chunk without appending the marker.
RECURSIVE ChunkLoopCutNoMarker(_, _, _, _, _, _)
ChunkLoopCutNoMarker(st, doc, meta, textChunks, i, includeMetadata) ==
    IF i > Len(textChunks) \/ st.charBudget <= 0 THEN st
    ELSE LET chunk == textChunks[i]
             cut == IF Len(chunk) > st.charBudget
                    THEN SliceTo(chunk, st.charBudget - 3)
                    ELSE chunk
             docTitle == TitleOf(meta, doc.entries)
             t == IF includeMetadata /\ i = 1
                  THEN Header(doc.type, docTitle, doc.id) \o <<NL, NL>> \o cut
                  ELSE cut
             block == [document_id |-> doc.id, document_type |-> doc.type,
                       title |-> docTitle,
                       updated_at |-> IF meta.updatedAt # "" THEN meta.updatedAt
                                      ELSE doc.updatedAt,
                       relevance_score |-> meta.score,
                       chunk_index |-> i - 1, total_chunks |-> Len(textChunks),
                       text |-> t, char_count |-> Len(t)]
         IN  ChunkLoopCutNoMarker(Assembly(Append(st.chunks, block),
                                           st.charBudget - Len(t),
                                           st.sourcesUsed \cup {doc.id}, FALSE),
                                  doc, meta, textChunks, i + 1, includeMetadata)

\* The loop with only the chunk, not the header, taken off the budget.
RECURSIVE ChunkLoopHeaderFree(_, _, _, _, _, _)
ChunkLoopHeaderFree(st, doc, meta, textChunks, i, includeMetadata) ==
    IF i > Len(textChunks) \/ st.charBudget <= 0 THEN st
    ELSE LET chunk == textChunks[i]
             cut == IF Len(chunk) > st.charBudget
                    THEN SliceTo(chunk, st.charBudget - 3) \o Ellipsis
                    ELSE chunk
             docTitle == TitleOf(meta, doc.entries)
             t == IF includeMetadata /\ i = 1
                  THEN Header(doc.type, docTitle, doc.id) \o <<NL, NL>> \o cut
                  ELSE cut
             block == [document_id |-> doc.id, document_type |-> doc.type,
                       title |-> docTitle,
                       updated_at |-> IF meta.updatedAt # "" THEN meta.updatedAt
                                      ELSE doc.updatedAt,
                       relevance_score |-> meta.score,
                       chunk_index |-> i - 1, total_chunks |-> Len(textChunks),
                       text |-> t, char_count |-> Len(t)]
         IN  ChunkLoopHeaderFree(Assembly(Append(st.chunks, block),
                                          st.charBudget - Len(cut),
                                          st.sourcesUsed \cup {doc.id}, FALSE),
                                 doc, meta, textChunks, i + 1, includeMetadata)

\* The loop that numbers a document's blocks from 1.
RECURSIVE ChunkLoopOneBased(_, _, _, _, _, _)
ChunkLoopOneBased(st, doc, meta, textChunks, i, includeMetadata) ==
    IF i > Len(textChunks) \/ st.charBudget <= 0 THEN st
    ELSE LET chunk == textChunks[i]
             cut == IF Len(chunk) > st.charBudget
                    THEN SliceTo(chunk, st.charBudget - 3) \o Ellipsis
                    ELSE chunk
             docTitle == TitleOf(meta, doc.entries)
             t == IF includeMetadata /\ i = 1
                  THEN Header(doc.type, docTitle, doc.id) \o <<NL, NL>> \o cut
                  ELSE cut
             block == [document_id |-> doc.id, document_type |-> doc.type,
                       title |-> docTitle,
                       updated_at |-> IF meta.updatedAt # "" THEN meta.updatedAt
                                      ELSE doc.updatedAt,
                       relevance_score |-> meta.score,
                       chunk_index |-> i, total_chunks |-> Len(textChunks),
                       text |-> t, char_count |-> Len(t)]
         IN  ChunkLoopOneBased(Assembly(Append(st.chunks, block), st.charBudget - Len(t),
                                        st.sourcesUsed \cup {doc.id}, FALSE),
                               doc, meta, textChunks, i + 1, includeMetadata)
\* for (let i = 0; i < textChunks.length; i++), i + 1 being the index here.
RECURSIVE ChunkLoop(_, _, _, _, _, _)
ChunkLoop(st, doc, meta, textChunks, i, includeMetadata) ==
    IF i > Len(textChunks) \/ st.charBudget <= 0 THEN st
    ELSE LET chunk == textChunks[i]
             cut == IF Len(chunk) > st.charBudget
                    THEN SliceTo(chunk, st.charBudget - 3) \o Ellipsis
                    ELSE chunk
             docTitle == TitleOf(meta, doc.entries)
             t == IF includeMetadata /\ i = 1
                  THEN Header(doc.type, docTitle, doc.id) \o <<NL, NL>> \o cut
                  ELSE cut
             block == [document_id |-> doc.id, document_type |-> doc.type,
                       title |-> docTitle,
                       updated_at |-> IF meta.updatedAt # "" THEN meta.updatedAt
                                      ELSE doc.updatedAt,
                       relevance_score |-> meta.score,
                       chunk_index |-> i - 1, total_chunks |-> Len(textChunks),
                       text |-> t, char_count |-> Len(t)]
         IN  ChunkLoop(Assembly(Append(st.chunks, block), st.charBudget - Len(t),
                                st.sourcesUsed \cup {doc.id}, FALSE),
                       doc, meta, textChunks, i + 1, includeMetadata)

\* for (const doc of fullDocs)
RECURSIVE DocLoop(_, _, _, _, _)
DocLoop(st, fullDocs, searchResults, chunkSize, includeMetadata) ==
    IF fullDocs = <<>> \/ st.charBudget <= 0 THEN st
    ELSE LET doc == Head(fullDocs)
             fullText == ExtractDocumentText(doc.entries, PtTextFields(doc.entries))
             chunkedText == ChunkText(fullText, chunkSize)
         IN  IF fullText = <<>>
             THEN DocLoop(st, Tail(fullDocs), searchResults, chunkSize, includeMetadata)
             ELSE IF ~chunkedText.returns
             THEN Assembly(st.chunks, st.charBudget, st.sourcesUsed, TRUE)
             ELSE DocLoop(ChunkLoop(st, doc, MetaOf(searchResults, doc.id),
                                    chunkedText.chunks, 1, includeMetadata),
                          Tail(fullDocs), searchResults, chunkSize, includeMetadata)

RECURSIVE SumCharCount(_)
\* allChunks.reduce((sum, c) => sum + c.char_count, 0)
SumCharCount(chunks) ==
    IF chunks = <<>> THEN 0 ELSE Head(chunks).char_count + SumCharCount(Tail(chunks))

\* The payload of retrieveContext's success envelope.
Context(chunks, sourcesUsed, query) ==
    [chunks |-> chunks, total_chunks |-> Len(chunks),
     total_chars |-> SumCharCount(chunks),
     sources_used |-> Cardinality(sourcesUsed), query |-> query]

----------------------------------------------------------------------------
\* retrieveContext
MaxResultsArgs == {Omitted, Arg(1), Arg(2), Arg(25)}
MaxCharsArgs == {Omitted, Arg(0), Arg(2), Arg(12)}
FlagArgs == {"omitted", "false", "true"}

\* One round trip to the store made by the call in flight: which await it
\* was and whether the store threw.
StoreCall(await, threw) == [await |-> await, threw |-> threw]

\* calls: the round trips to the store the call has made so far.
NoRcLoc == [chunkSize |-> 0, maxResults |-> 0, includeMetadata |-> FALSE,
            searchResults |-> <<>>, projection |-> <<>>, fullDocs |-> <<>>,
            calls |-> <<>>]

RetrieveContextCall ==
    \E max_results \in MaxResultsArgs, max_chars \in MaxCharsArgs,
       include_metadata \in FlagArgs :
        /\ op' = [name |-> "retrieve_context", query |-> "a",
                  max_results |-> max_results, max_chars |-> max_chars,
                  include_metadata |-> include_metadata]
        /\ Start("rc settings")

\* getRagSettings and the content_settings read, then the locals computed
\* from them and from the arguments.
RetrieveReadSettings ==
    /\ pc = "rc settings"
    /\ \E storageOk \in BOOLEAN :
          IF storageOk
          THEN /\ loc' = [NoRcLoc EXCEPT
                             !.chunkSize = ChunkSizeOf(ragSettings),
                             !.maxResults = MaxResultsOf(op.max_results),
                             !.includeMetadata = (op.include_metadata # "false")]
               /\ pc' = "rc search"
               /\ UNCHANGED result
          ELSE /\ Return(Failure("storage failed", "getRagSettings"))
               /\ UNCHANGED loc
    /\ UNCHANGED <<conn, store, op, sample, sent, notStoreVars>>

\* Step 1 without the early return.
RetrieveSearchNoEarlyReturn ==
    /\ pc = "rc search"
    /\ \/ /\ Return(Failure("store failed", "search"))
          /\ loc' = [loc EXCEPT !.calls = Append(@, StoreCall("search", TRUE))]
       \/ \E searchResults \in Rankings(docs, loc.maxResults) :
             /\ loc' = [loc EXCEPT
                          !.searchResults = searchResults,
                          !.calls = Append(@, StoreCall("search", FALSE))]
             /\ pc' = "rc sample"
             /\ UNCHANGED result
    /\ UNCHANGED <<conn, store, op, sample, sent, notStoreVars>>

\* Step 1: the ranking query.  No result (null or an empty list) ends the
\* call with the empty context.
RetrieveSearch ==
    /\ pc = "rc search"
    /\ \/ /\ Return(Failure("store failed", "search"))
          /\ loc' = [loc EXCEPT !.calls = Append(@, StoreCall("search", TRUE))]
       \/ \E searchResults \in Rankings(docs, loc.maxResults) :
             IF searchResults = <<>>
             THEN /\ Return(Success(Context(<<>>, {}, op.query)))
                  /\ loc' = [loc EXCEPT
                               !.calls = Append(@, StoreCall("search", FALSE))]
             ELSE /\ loc' = [loc EXCEPT
                               !.searchResults = searchResults,
                               !.calls = Append(@, StoreCall("search", FALSE))]
                  /\ pc' = "rc sample"
                  /\ UNCHANGED result
    /\ UNCHANGED <<conn, store, op, sample, sent, notStoreVars>>

\* Step 2, first half, with a failed getDocument taken as no sample.
RetrieveSampleFirstIgnoresFailure ==
    /\ pc = "rc sample"
    /\ \/ /\ loc' = [loc EXCEPT
                      !.projection = <<>>,
                      !.calls = Append(@, StoreCall("getDocument", TRUE))]
          /\ pc' = "rc fetch"
          /\ UNCHANGED result
       \/ \E found \in BOOLEAN :
             LET sampleDoc == IF found
                              THEN StoredEntries(docs[loc.searchResults[1].doc])
                              ELSE <<>>
             IN  /\ loc' = [loc EXCEPT
                              !.projection = BuildTextExtractionProjection(sampleDoc),
                              !.calls = Append(@, StoreCall("getDocument", FALSE))]
                 /\ pc' = "rc fetch"
                 /\ UNCHANGED result
    /\ UNCHANGED <<conn, store, op, sample, sent, notStoreVars>>

\* Step 2, first half: getDocument of the first result, which throws, gives
\* nothing, or gives the document the projection is built from.
RetrieveSampleFirst ==
    /\ pc = "rc sample"
    /\ \/ /\ Return(Failure("store failed", "getDocument"))
          /\ loc' = [loc EXCEPT !.calls = Append(@, StoreCall("getDocument", TRUE))]
       \/ \E found \in BOOLEAN :
             LET sampleDoc == IF found
                              THEN StoredEntries(docs[loc.searchResults[1].doc])
                              ELSE <<>>
             IN  /\ loc' = [loc EXCEPT
                              !.projection = BuildTextExtractionProjection(sampleDoc),
                              !.calls = Append(@, StoreCall("getDocument", FALSE))]
                 /\ pc' = "rc fetch"
                 /\ UNCHANGED result
    /\ UNCHANGED <<conn, store, op, sample, sent, notStoreVars>>

\* Step 2, second half, and step 3: the full records of the ranked ids, in
\* the order the store returns them, then the assembly and the envelope.
RetrieveFetchAndAssemble ==
    /\ pc = "rc fetch"
    /\ \/ /\ Return(Failure("store failed", "fetch"))
          /\ loc' = [loc EXCEPT !.calls = Append(@, StoreCall("fetch", TRUE))]
       \/ \E order \in Orders(Len(loc.searchResults)) :
             LET fullDocs == [j \in 1..Len(order) |->
                                LET i == loc.searchResults[order[j]].doc
                                IN  Fetched(i, docs[i], loc.projection)]
                 charBudget == CharBudgetOf(op.max_chars, loc.chunkSize, loc.maxResults)
                 st == DocLoop(Assembly(<<>>, charBudget, {}, FALSE), fullDocs,
                               loc.searchResults, loc.chunkSize, loc.includeMetadata)
             IN  /\ loc' = [loc EXCEPT
                              !.fullDocs = fullDocs,
                              !.calls = Append(@, StoreCall("fetch", FALSE))]
                 /\ IF st.hangs
                    THEN pc' = "hung" /\ UNCHANGED result
                    ELSE Return(Success(Context(st.chunks, st.sourcesUsed, op.query)))
    /\ UNCHANGED <<conn, store, op, sample, sent, notStoreVars>>

RetrieveNext ==
    \/ RetrieveContextCall \/ RetrieveReadSettings \/ RetrieveSearch
    \/ RetrieveSampleFirst \/ RetrieveFetchAndAssemble
    \/ EndCall

(***************************************************************************)
(* The read-only tools and upload_asset.  get_document, get_document_types *)
(* and get_content_catalog read the dataset of the document operations     *)
(* (ids and kinds); search_content and get_document_text read the          *)
(* documents with their fields.  What a query answers beyond that is kept  *)
(* as far as the envelope shows it.                                        *)
(***************************************************************************)
\* getDocument
GetDocumentCall ==
    \E id \in DocIds :
        /\ op' = [name |-> "get_document", id |-> id]
        /\ Start("get document")

\* const document = await client.getDocument(parameters.document_id)
GetDocumentGet ==
    /\ pc = "get document"
    /\ \/ Return(Failure("store failed", "getDocument"))
       \/ IF store[op.id] = Absent
          THEN Return(Failure([notFound |-> op.id], ""))
          ELSE Return(Success([document |-> store[op.id]]))
    /\ UNCHANGED <<conn, store, op, loc, sample, sent, notStoreVars>>

----------------------------------------------------------------------------
\* queryDocuments

\* What client.fetch(parameters.query) answers: a list, or a single value.
QueryAnswers == {ArrV(<<>>), ArrV(<<Null, Null>>), NumV(2, 0), Null}

QueryDocumentsCall ==
    /\ op' = [name |-> "query_documents", query |-> "*"]
    /\ Start("query fetch")

\* const results = await client.fetch(parameters.query)
QueryDocumentsFetch ==
    /\ pc = "query fetch"
    /\ \/ Return(Failure("store failed", "fetch"))
       \/ \E results \in QueryAnswers :
             Return(Success([results |-> IF results.k = "array"
                                         THEN results.items ELSE <<results>>,
                             count |-> IF results.k = "array"
                                       THEN Len(results.items) ELSE 1]))
    /\ UNCHANGED <<conn, store, op, loc, sample, sent, notStoreVars>>

----------------------------------------------------------------------------
\* searchContent
LimitArgs == {Omitted, Arg(1)}
DefaultSearchResults == 25
\* parameters.limit || parseInt(ragSettings.max_search_results || '25', 10),
\* the setting being absent.
SearchLimitOf(arg) == IF arg.given /\ arg.n # 0 THEN arg.n ELSE DefaultSearchResults

SearchContentCall ==
    \E limit \in LimitArgs :
        /\ op' = [name |-> "search_content", search_query |-> "a", limit |-> limit]
        /\ Start("search settings")

\* getRagSettings and the content_settings read.
SearchReadSettings ==
    /\ pc = "search settings"
    /\ \E storageOk \in BOOLEAN :
          IF storageOk
          THEN pc' = "search fetch" /\ UNCHANGED result
          ELSE Return(Failure("storage failed", "getRagSettings"))
    /\ UNCHANGED <<conn, store, op, loc, sample, sent, notStoreVars>>

\* const results = await client.fetch(groqQuery, ...), then results.length,
\* which throws inside the try when the store answered null.
SearchFetch ==
    /\ pc = "search fetch"
    /\ \/ Return(Failure("store failed", "fetch"))
       \/ Return(Failure("TypeError", "results.length"))
       \/ \E results \in Rankings(docs, SearchLimitOf(op.limit)) :
             Return(Success([results |-> results, count |-> Len(results)]))
    /\ UNCHANGED <<conn, store, op, loc, sample, sent, notStoreVars>>

----------------------------------------------------------------------------
\* getDocumentTypes and getContentCatalog

\* Object.keys(typeCounts).sort() over the kinds of the model.
KindOrder == <<"author", "post">>
\* The number of documents of a kind.
CountOf(st, kind) == Cardinality({i \in DocIds : st[i].type = kind})
\* The kinds that have a document, sorted.
TypeNames(st) == SelectSeq(KindOrder, LAMBDA k : CountOf(st, k) > 0)
\* One entry of types: the kind and its count (the field lists are left out).
TypeEntry(st, kind) == [type |-> kind, count |-> CountOf(st, kind)]
\* document_type: a kind, or "" when left out.
TypeArgs == {"", "post"}

GetDocumentTypesCall ==
    \E type \in TypeArgs :
        /\ op' = [name |-> "get_document_types", type |-> type]
        /\ Start(IF type # "" THEN "types docs" ELSE "types all")

\* const docs = await client.fetch(`*[_type == $type][0...5]`, ...)
TypesFetchDocs ==
    /\ pc = "types docs"
    /\ \/ Return(Failure("store failed", "fetch docs"))
       \/ pc' = "types count" /\ UNCHANGED result
    /\ UNCHANGED <<conn, store, op, loc, sample, sent, notStoreVars>>

\* const totalCount = await client.fetch(`count(*[_type == $type])`, ...)
TypesFetchCount ==
    /\ pc = "types count"
    /\ \/ Return(Failure("store failed", "fetch count"))
       \/ Return(Success([types |-> <<TypeEntry(store, op.type)>>]))
    /\ UNCHANGED <<conn, store, op, loc, sample, sent, notStoreVars>>

\* const allDocs = await client.fetch(query), then the counts per kind.
TypesFetchAll ==
    /\ pc = "types all"
    /\ \/ Return(Failure("store failed", "fetch all")) /\ UNCHANGED loc
       \/ IF TypeNames(store) = <<>>
          THEN Return(Success([types |-> <<>>])) /\ UNCHANGED loc
          ELSE /\ loc' = [todo |-> TypeNames(store), types |-> <<>>]
               /\ pc' = "types sample"
               /\ UNCHANGED result
    /\ UNCHANGED <<conn, store, op, sample, sent, notStoreVars>>

\* One turn of the loop: const sample = await client.fetch(`*[_type == $type][0]`, ...)
TypesFetchSample ==
    /\ pc = "types sample"
    /\ \/ Return(Failure("store failed", "fetch sample")) /\ UNCHANGED loc
       \/ IF Len(loc.todo) = 1
          THEN /\ Return(Success([types |-> Append(loc.types,
                                                   TypeEntry(store, Head(loc.todo)))]))
               /\ UNCHANGED loc
          ELSE /\ loc' = [todo |-> Tail(loc.todo),
                          types |-> Append(loc.types, TypeEntry(store, Head(loc.todo)))]
               /\ pc' = "types sample"
               /\ UNCHANGED result
    /\ UNCHANGED <<conn, store, op, sample, sent, notStoreVars>>

\* The catalog of the success envelope.
Catalog(totalDocuments, types) ==
    [total_documents |-> totalDocuments, total_types |-> Len(types), types |-> types]

GetContentCatalogCall ==
    \E type \in TypeArgs, include_samples \in FlagArgs :
        /\ op' = [name |-> "get_content_catalog", type |-> type,
                  include_samples |-> include_samples]
        /\ Start(IF type # "" THEN "catalog count" ELSE "catalog types")

\* Detail mode: const count = await client.fetch(`count(*[_type == $type])`, ...)
CatalogFetchCount ==
    /\ pc = "catalog count"
    /\ \/ Return(Failure("store failed", "fetch count"))
       \/ pc' = "catalog samples" /\ UNCHANGED result
    /\ UNCHANGED <<conn, store, op, loc, sample, sent, notStoreVars>>

\* const samples = await client.fetch(`... [0...5]`, ...)
CatalogFetchSamples ==
    /\ pc = "catalog samples"
    /\ \/ Return(Failure("store failed", "fetch samples"))
       \/ pc' = "catalog dates" /\ UNCHANGED result
    /\ UNCHANGED <<conn, store, op, loc, sample, sent, notStoreVars>>

\* const dateRange = await client.fetch(...); the enriched samples are fetched
\* only when there is a sample.
CatalogFetchDateRange ==
    /\ pc = "catalog dates"
    /\ \/ Return(Failure("store failed", "fetch dateRange"))
       \/ IF CountOf(store, op.type) > 0
          THEN pc' = "catalog enriched" /\ UNCHANGED result
          ELSE Return(Success(Catalog(0, <<TypeEntry(store, op.type)>>)))
    /\ UNCHANGED <<conn, store, op, loc, sample, sent, notStoreVars>>

\* const enrichedSamples = await client.fetch(`... [0...3]${projection}`, ...)
CatalogFetchEnriched ==
    /\ pc = "catalog enriched"
    /\ \/ Return(Failure("store failed", "fetch enrichedSamples"))
       \/ Return(Success(Catalog(CountOf(store, op.type),
                                 <<TypeEntry(store, op.type)>>)))
    /\ UNCHANGED <<conn, store, op, loc, sample, sent, notStoreVars>>

\* The number of documents of any kind.
TotalOf(st) == Cardinality({i \in DocIds : st[i] # Absent})

\* Summary mode: const typeData = await client.fetch(`*[...]._type`)
CatalogFetchTypes ==
    /\ pc = "catalog types"
    /\ \/ Return(Failure("store failed", "fetch typeData")) /\ UNCHANGED loc
       \/ IF TypeNames(store) = <<>>
          THEN Return(Success(Catalog(0, <<>>))) /\ UNCHANGED loc
          ELSE /\ loc' = [todo |-> TypeNames(store), types |-> <<>>]
               /\ pc' = "catalog sample"
               /\ UNCHANGED result
    /\ UNCHANGED <<conn, store, op, sample, sent, notStoreVars>>

\* After the awaits of one turn of the loop: the next turn, or the envelope.
CatalogTurnDone ==
    IF Len(loc.todo) = 1
    THEN /\ Return(Success(Catalog(TotalOf(store),
                                   Append(loc.types, TypeEntry(store, Head(loc.todo))))))
         /\ UNCHANGED loc
    ELSE /\ loc' = [todo |-> Tail(loc.todo),
                    types |-> Append(loc.types, TypeEntry(store, Head(loc.todo)))]
         /\ pc' = "catalog sample"
         /\ UNCHANGED result

\* One turn of the loop: const sample = await client.fetch(`... [0]`, ...)
CatalogFetchSample ==
    /\ pc = "catalog sample"
    /\ \/ Return(Failure("store failed", "fetch sample")) /\ UNCHANGED loc
       \/ IF op.include_samples # "false"
          THEN pc' = "catalog recent" /\ UNCHANGED <<loc, result>>
          ELSE CatalogTurnDone
    /\ UNCHANGED <<conn, store, op, sample, sent, notStoreVars>>

\* const recentDocs = await client.fetch(`... [0...3] {...}`, ...)
CatalogFetchRecent ==
    /\ pc = "catalog recent"
    /\ \/ Return(Failure("store failed", "fetch recentDocs")) /\ UNCHANGED loc
       \/ CatalogTurnDone
    /\ UNCHANGED <<conn, store, op, sample, sent, notStoreVars>>

----------------------------------------------------------------------------
\* uploadAsset

\* The arguments: base64 data that decodes to something or to nothing, with or
\* without content_type; a url; or neither.
UploadArgs ==
    {[source |-> "none", content_type |-> FALSE],
     [source |-> "url", content_type |-> FALSE],
     [source |-> "data", content_type |-> FALSE],
     [source |-> "data", content_type |-> TRUE],
     [source |-> "empty data", content_type |-> TRUE]}

\* The await uploadAsset reaches first after getSanityClient.
UploadFirst(source) == IF source = "url" THEN "upload download" ELSE "upload send"

\* The error of the envelope uploadAsset returns before any await for
\* arguments that cannot be uploaded, "" when it returns none.
UploadInvalid(source, content_type) ==
    IF source = "none"
    THEN "Either \"data\" (base64 string) or \"url\" (public URL) must be provided."
    ELSE IF source = "url" THEN ""
    ELSE IF ~content_type
    THEN "content_type is required when uploading from base64 data."
    ELSE IF source = "empty data"
    THEN "Decoded data is empty. Ensure the base64 string is valid."
    ELSE ""

UploadAssetCall ==
    \E args \in UploadArgs :
        /\ op' = [name |-> "upload_asset", source |-> args.source,
                  content_type |-> args.content_type]
        /\ StartOr(UploadFirst(args.source),
                   UploadInvalid(args.source, args.content_type))

\* const response = await fetch(parameters.url), then response.arrayBuffer()
UploadDownload ==
    /\ pc = "upload download"
    /\ \/ Return(Failure("fetch failed", "fetch url"))
       \/ Return(Failure("Failed to fetch URL", ""))
       \/ pc' = "upload send" /\ UNCHANGED result
    /\ UNCHANGED <<conn, store, op, loc, sample, sent, notStoreVars>>

\* const asset = await client.assets.upload(assetType, buffer, uploadOptions)
UploadSend ==
    /\ pc = "upload send"
    /\ \/ Return(Failure("store failed", "assets.upload"))
       \/ Return(Success([asset_id |-> "asset"]))
    /\ UNCHANGED <<conn, store, op, loc, sample, sent, notStoreVars>>

----------------------------------------------------------------------------
\* getDocumentText

\* fields: left out (or empty), or a list of field names.
FieldsArgs == {<<>>, <<KeyTitle>>}

\* The filtered record: the requested fields the document has, in the order
\* they were requested.
FilterFields(entries, fields) ==
    LET present == SelectSeq(fields, LAMBDA f : Lookup(entries, f) # Undefined)
    IN  [j \in 1..Len(present) |-> Entry(present[j], Lookup(entries, present[j]))]

\* for (const chunk of textChunks) under the budget.
RECURSIVE BudgetLoop(_, _)
BudgetLoop(textChunks, charBudget) ==
    IF textChunks = <<>> \/ charBudget <= 0 THEN <<>>
    ELSE IF Len(Head(textChunks)) <= charBudget
    THEN <<Head(textChunks)>>
         \o BudgetLoop(Tail(textChunks), charBudget - Len(Head(textChunks)))
    ELSE <<SliceTo(Head(textChunks), charBudget - 3) \o Ellipsis>>

\* if (maxChars !== undefined && maxChars !== 0 && maxChars > 0)
Budgeted(textChunks, arg) ==
    IF arg.given /\ arg.n # 0 /\ arg.n > 0
    THEN BudgetLoop(textChunks, arg.n) ELSE textChunks

\* The payload of getDocumentText's success envelope.
DocumentText(i, entries, textChunks) ==
    LET chunks == [j \in 1..Len(textChunks) |->
                      [chunk_index |-> j - 1, total_chunks |-> Len(textChunks),
                       text |-> textChunks[j], char_count |-> Len(textChunks[j])]]
    IN  [document_id |-> IdOf(i), document_type |-> PostType,
         title |-> TitleOf(NoMeta, entries),
         chunks |-> chunks, total_chars |-> SumCharCount(chunks),
         total_chunks |-> Len(textChunks)]

NoTextLoc == [chunkSize |-> 0, doc |-> <<>>, projection |-> <<>>, calls |-> <<>>]

\* document_id is the id of document doc; no document has the id when doc is
\* beyond the dataset.
GetDocumentTextCall ==
    \E doc \in 1..(MaxDocs + 1), max_chars \in MaxCharsArgs, fields \in FieldsArgs :
        /\ op' = [name |-> "get_document_text", doc |-> doc,
                  max_chars |-> max_chars, fields |-> fields]
        /\ Start("text settings")

\* getRagSettings, then chunkSize.
TextReadSettings ==
    /\ pc = "text settings"
    /\ \E storageOk \in BOOLEAN :
          IF storageOk
          THEN /\ loc' = [NoTextLoc EXCEPT !.chunkSize = ChunkSizeOf(ragSettings)]
               /\ pc' = "text get"
               /\ UNCHANGED result
          ELSE /\ Return(Failure("storage failed", "getRagSettings"))
               /\ UNCHANGED loc
    /\ UNCHANGED <<conn, store, op, sample, sent, notStoreVars>>

\* const doc = await client.getDocument(parameters.document_id), then the
\* projection built from it.
TextGetDocument ==
    /\ pc = "text get"
    /\ \/ /\ Return(Failure("store failed", "getDocument"))
          /\ loc' = [loc EXCEPT !.calls = Append(@, StoreCall("getDocument", TRUE))]
       \/ IF op.doc > Len(docs)
          THEN /\ Return(Failure([notFound |-> IdOf(op.doc)], ""))
               /\ loc' = [loc EXCEPT
                            !.calls = Append(@, StoreCall("getDocument", FALSE))]
          ELSE /\ loc' = [loc EXCEPT
                            !.doc = StoredEntries(docs[op.doc]),
                            !.projection =
                                BuildTextExtractionProjection(StoredEntries(docs[op.doc])),
                            !.calls = Append(@, StoreCall("getDocument", FALSE))]
               /\ pc' = "text fetch"
               /\ UNCHANGED result
    /\ UNCHANGED <<conn, store, op, sample, sent, notStoreVars>>

\* const enriched = await client.fetch(`*[_id == $id]${projection}[0]`, ...),
\* then the text, its chunks and the envelope.  Object.entries(enriched)
\* throws inside the try when the store answered null.
TextFetchAndChunk ==
    /\ pc = "text fetch"
    /\ \/ /\ Return(Failure("store failed", "fetch"))
          /\ loc' = [loc EXCEPT !.calls = Append(@, StoreCall("fetch", TRUE))]
       \/ /\ Return(Failure("TypeError", "Object.entries"))
          /\ loc' = [loc EXCEPT !.calls = Append(@, StoreCall("fetch", FALSE))]
       \/ LET enriched == Fetched(op.doc, docs[op.doc], loc.projection)
              sourceDoc == IF op.fields # <<>>
                           THEN FilterFields(loc.doc, op.fields) ELSE loc.doc
              fullText == ExtractDocumentText(sourceDoc, PtTextFields(enriched.entries))
              chunkedText == ChunkText(fullText, loc.chunkSize)
          IN  /\ loc' = [loc EXCEPT !.calls = Append(@, StoreCall("fetch", FALSE))]
              /\ IF fullText = <<>>
                 THEN Return(Success(DocumentText(op.doc, loc.doc, <<>>)))
                 ELSE IF ~chunkedText.returns
                 THEN pc' = "hung" /\ UNCHANGED result
                 ELSE Return(Success(DocumentText(op.doc, loc.doc,
                                Budgeted(chunkedText.chunks, op.max_chars))))
    /\ UNCHANGED <<conn, store, op, sample, sent, notStoreVars>>

ReadNext ==
    \/ GetDocumentCall \/ GetDocumentGet
    \/ QueryDocumentsCall \/ QueryDocumentsFetch
    \/ SearchContentCall \/ SearchReadSettings \/ SearchFetch
    \/ GetDocumentTypesCall \/ TypesFetchDocs \/ TypesFetchCount
    \/ TypesFetchAll \/ TypesFetchSample
    \/ GetContentCatalogCall \/ CatalogFetchCount \/ CatalogFetchSamples
    \/ CatalogFetchDateRange \/ CatalogFetchEnriched \/ CatalogFetchTypes
    \/ CatalogFetchSample \/ CatalogFetchRecent
    \/ UploadAssetCall \/ UploadDownload \/ UploadSend
    \/ GetDocumentTextCall \/ TextReadSettings \/ TextGetDocument
    \/ TextFetchAndChunk

(***************************************************************************)
(* onSettingsForm.                                                         *)
(* storage.settings holds the form data last saved under each section.     *)
(* A form field is a string, or is missing from the form data.             *)
(***************************************************************************)
FormSections == {"sanity_connection", "rag_settings"}
NoSection == [k |-> "absent"]
NoSubmission == [section |-> "", formData |-> NoSection]
NoFormResult == [k |-> "none"]

FieldValues == {Undefined, StrV(<<>>), StrV(<<" ">>), StrV(<<" ", "a">>)}
FormDatas == [project_id : FieldValues, dataset : FieldValues, api_token : FieldValues]

\* !x of a form field or stored setting: it is missing or the empty string.
Falsy(v) == v.k # "string" \/ v.s = <<>>

\* The test without the trim.
BlankUntrimmed(v) == Falsy(v)

\* !x || x.trim() === ''
Blank(v) == Falsy(v) \/ Trim(v.s) = <<>>

\* result.addError(field, message) for each of the three fields that fails
\* the test, in the order of the code.
FormErrors(formData) ==
    (IF Blank(formData.project_id)
     THEN <<[field |-> "project_id", message |-> "Project ID is required"]>>
     ELSE <<>>)
    \o (IF Blank(formData.dataset)
        THEN <<[field |-> "dataset", message |-> "Dataset is required"]>>
        ELSE <<>>)
    \o (IF Blank(formData.api_token)
        THEN <<[field |-> "api_token", message |-> "API Token is required"]>>
        ELSE <<>>)

\* What getSanityClient finds in the stored sanity_connection section: a
\* setting is missing when it is undefined or the empty string.
ConnOf(section) ==
    IF section = NoSection THEN "absent"
    ELSE IF Falsy(section.project_id) THEN "no project_id"
    ELSE IF Falsy(section.dataset) THEN "no dataset"
    ELSE IF Falsy(section.api_token) THEN "no api_token"
    ELSE "ok"

\* onSettingsForm(section, action, formData): the validation of a
\* sanity_connection form, then storage.settings.put, which may throw.
OnSettingsForm ==
    /\ \E section \in FormSections, formData \in FormDatas :
          /\ submitted' = [section |-> section, formData |-> formData]
          /\ IF section = "sanity_connection" /\ FormErrors(formData) # <<>>
             THEN /\ formResult' = [k |-> "returned", errors |-> FormErrors(formData)]
                  /\ UNCHANGED <<storage, conn>>
             ELSE \/ /\ storage' = [storage EXCEPT ![section] = formData]
                     /\ conn' = ConnOf(storage'["sanity_connection"])
                     /\ formResult' = [k |-> "returned", errors |-> <<>>]
                  \/ /\ formResult' = [k |-> "raised"]
                     /\ UNCHANGED <<storage, conn>>
    /\ UNCHANGED <<store, op, pc, loc, sample, sent, result>>
    /\ UNCHANGED <<chunkVars, inferVars, readVars, extractVars, concVars>>

FormNext == OnSettingsForm

(***************************************************************************)
(* The documents extractDocumentText is called on: up to MaxFields entries *)
(* with distinct keys, system fields among them, holding strings, scalars, *)
(* rich text and objects with and without a discriminator.                 *)
(***************************************************************************)
NotExtracted == [returns |-> FALSE, text |-> <<>>]
KeySlug == <<"m", "y", "_", "s", "l", "u", "g">>
DocumentKeys == SystemFields \cup {KeyTitle, KeySlug}
DocumentValues ==
    { StrV(<<" ">>), StrV(<<" ", "a">>), Null, NumV(1, 0), SamplePortableText,
      ObjV("slug", "undefined", <<"a">>), ObjV("slug", "undefined", <<>>),
      ObjV("image", "object", <<"a">>), ObjV("reference", "undefined", <<"a">>),
      ObjV(NoType, "undefined", <<"a">>) }
Documents ==
    UNION {{d \in [1..n -> {Entry(k, v) : k \in DocumentKeys, v \in DocumentValues}] :
              \A i, j \in 1..n : i # j => d[i].key # d[j].key} : n \in 0..MaxFields}

(***************************************************************************)
(* The chunker called on any text and any positive limit.                  *)
(***************************************************************************)
NotCalled == [returns |-> FALSE, chunks |-> <<>>]

\* Any text and limit, the call not yet made; the other parts of the program
\* at rest.
ChunkInit ==
    /\ text \in StrUpTo(MaxTextLen)
    /\ maxChunkSize \in 1..MaxChunkSize
    /\ chunked = NotCalled
    /\ cpc = "call"
    /\ value = Undefined /\ tag = NoTag /\ ipc = "idle"
    /\ conn = "ok"
    /\ store = [i \in DocIds |-> Absent]
    /\ op = NoOp /\ pc = "idle" /\ loc = NoLoc
    /\ sample = NoSample /\ sent = NoSent /\ result = NoResult
    /\ docs = <<>> /\ ragSettings = NoRagSettings
    /\ document = <<>> /\ extracted = NotExtracted /\ xpc = "idle"
    /\ inv = <<>>
    /\ storage = <<>> /\ submitted = NoSubmission /\ formResult = NoFormResult

ChunkCall ==
    /\ cpc = "call"
    /\ chunked' = ChunkText(text, maxChunkSize)
    /\ cpc' = "done"
    /\ UNCHANGED <<text, maxChunkSize, notChunkVars>>

ChunkNext == ChunkCall

SpecChunk == ChunkInit /\ [][ChunkNext]_vars

(***************************************************************************)
(* The classifier called on any value.                                     *)
(***************************************************************************)
InferInit ==
    /\ value \in Values
    /\ tag = NoTag
    /\ ipc = "call"
    /\ text = <<>> /\ maxChunkSize = 1 /\ chunked = NotCalled /\ cpc = "idle"
    /\ conn = "ok"
    /\ store = [i \in DocIds |-> Absent]
    /\ op = NoOp /\ pc = "idle" /\ loc = NoLoc
    /\ sample = NoSample /\ sent = NoSent /\ result = NoResult
    /\ docs = <<>> /\ ragSettings = NoRagSettings
    /\ document = <<>> /\ extracted = NotExtracted /\ xpc = "idle"
    /\ inv = <<>>
    /\ storage = <<>> /\ submitted = NoSubmission /\ formResult = NoFormResult

SpecInfer == InferInit /\ [][InferNext]_vars

(***************************************************************************)
(* The document operations, one call at a time, on a dataset that starts   *)
(* empty, with the connection settings in any state.                       *)
(***************************************************************************)
StoreInit ==
    /\ conn \in ConnStates
    /\ store = [i \in DocIds |-> Absent]
    /\ op = NoOp /\ pc = "idle" /\ loc = NoLoc
    /\ sample = NoSample /\ sent = NoSent /\ result = NoResult
    /\ docs = <<>> /\ ragSettings = NoRagSettings
    /\ document = <<>> /\ extracted = NotExtracted /\ xpc = "idle"
    /\ inv = <<>>
    /\ storage = <<>> /\ submitted = NoSubmission /\ formResult = NoFormResult
    /\ text = <<>> /\ maxChunkSize = 1 /\ chunked = NotCalled /\ cpc = "idle"
    /\ value = Undefined /\ tag = NoTag /\ ipc = "idle"

Spec == StoreInit /\ [][StoreNext]_vars

(***************************************************************************)
(* retrieve_context, one call at a time, on any dataset, with the          *)
(* connection settings and the rag settings in any state.                  *)
(***************************************************************************)
RetrieveInit ==
    /\ conn \in ConnStates
    /\ docs \in Datasets
    /\ ragSettings \in RagSettingsStates
    /\ document = <<>> /\ extracted = NotExtracted /\ xpc = "idle"
    /\ inv = <<>>
    /\ storage = <<>> /\ submitted = NoSubmission /\ formResult = NoFormResult
    /\ store = [i \in DocIds |-> Absent]
    /\ op = NoOp /\ pc = "idle" /\ loc = NoLoc
    /\ sample = NoSample /\ sent = NoSent /\ result = NoResult
    /\ text = <<>> /\ maxChunkSize = 1 /\ chunked = NotCalled /\ cpc = "idle"
    /\ value = Undefined /\ tag = NoTag /\ ipc = "idle"

SpecRetrieve == RetrieveInit /\ [][RetrieveNext]_vars

(***************************************************************************)
(* extractDocumentText called on any document with no derived text.        *)
(***************************************************************************)
ExtractInit ==
    /\ document \in Documents
    /\ extracted = NotExtracted
    /\ xpc = "call"
    /\ inv = <<>>
    /\ storage = <<>> /\ submitted = NoSubmission /\ formResult = NoFormResult
    /\ conn = "ok"
    /\ store = [i \in DocIds |-> Absent]
    /\ op = NoOp /\ pc = "idle" /\ loc = NoLoc
    /\ sample = NoSample /\ sent = NoSent /\ result = NoResult
    /\ docs = <<>> /\ ragSettings = NoRagSettings
    /\ text = <<>> /\ maxChunkSize = 1 /\ chunked = NotCalled /\ cpc = "idle"
    /\ value = Undefined /\ tag = NoTag /\ ipc = "idle"

\* extractDocumentText(doc, {})
ExtractCall ==
    /\ xpc = "call"
    /\ extracted' = [returns |-> TRUE, text |-> ExtractDocumentText(document, <<>>)]
    /\ xpc' = "done"
    /\ UNCHANGED <<document, notExtractVars>>

ExtractNext == ExtractCall

SpecExtract == ExtractInit /\ [][ExtractNext]_vars

(***************************************************************************)
(* All the tools, one call at a time: the document operations on a dataset *)
(* that starts empty, the tools of the read path on two documents with     *)
(* fields, with the connection settings and the rag settings in any state. *)
(***************************************************************************)
ToolsDocs ==
    << <<Field(KeyTitle, StrV(<<"T">>), Null),
         Field(KeyBody, SamplePortableText, StrV(RichFlat))>>,
       <<Field(KeyTitle, StrV(<<"T">>), Null),
         Field(KeyText, StrV(<<"a", "a", "a", "a">>), Null)>> >>

ToolsInit ==
    /\ conn \in ConnStates
    /\ docs = ToolsDocs
    /\ ragSettings \in RagSettingsStates
    /\ store = [i \in DocIds |-> Absent]
    /\ op = NoOp /\ pc = "idle" /\ loc = NoLoc
    /\ sample = NoSample /\ sent = NoSent /\ result = NoResult
    /\ document = <<>> /\ extracted = NotExtracted /\ xpc = "idle"
    /\ inv = <<>>
    /\ storage = <<>> /\ submitted = NoSubmission /\ formResult = NoFormResult
    /\ text = <<>> /\ maxChunkSize = 1 /\ chunked = NotCalled /\ cpc = "idle"
    /\ value = Undefined /\ tag = NoTag /\ ipc = "idle"

ToolsNext ==
    \/ StoreNext
    \/ ReadNext
    \/ RetrieveContextCall \/ RetrieveReadSettings \/ RetrieveSearch
    \/ RetrieveSampleFirst \/ RetrieveFetchAndAssemble

SpecTools == ToolsInit /\ [][ToolsNext]_vars

(***************************************************************************)
(* Concurrent retrieve_context invocations.  Each invocation is one call   *)
(* of retrieveContext; its parameters and every const and let of the       *)
(* function body are its own.  An invocation runs up to its next await in  *)
(* one step, and the steps of the invocations interleave in any order.     *)
(* heard is what storage and the store answered the invocation, in the     *)
(* order of its awaits.                                                    *)
(***************************************************************************)
Invocations == {1, 2}

ConcCalls ==
    {[name |-> "retrieve_context", query |-> "a", max_results |-> Omitted,
      max_chars |-> c, include_metadata |-> f] :
        c \in {Omitted, Arg(12)}, f \in {"omitted", "false"}}

NoInvocation ==
    [op |-> NoOp, pc |-> "idle", loc |-> NoRcLoc, result |-> NoResult,
     heard |-> <<>>]

\* One answer to an await: it threw, or it gave the answer.
Heard(await, threw, answer) == [await |-> await, threw |-> threw, answer |-> answer]

\* retrieveContext is entered: getSanityClient.
ConcCall(i) ==
    /\ inv[i].pc = "idle"
    /\ \E call \in ConcCalls, storageOk \in BOOLEAN :
          LET client == GetSanityClient(conn, storageOk)
          IN  inv' = [inv EXCEPT
                        ![i].op = call,
                        ![i].heard = <<Heard("getSanityClient", ~storageOk, "")>>,
                        ![i].pc = IF client = "ok" THEN "rc settings" ELSE "returned",
                        ![i].result = IF client = "ok" THEN NoResult
                                      ELSE Failure(client, "getSanityClient")]
    /\ UNCHANGED notConcVars

\* The locals computed from the settings, kept where every invocation reads
\* them.
ConcReadSettingsShared(i) ==
    /\ inv[i].pc = "rc settings"
    /\ \E storageOk \in BOOLEAN :
          IF storageOk
          THEN inv' = [j \in Invocations |->
                         [inv[j] EXCEPT
                            !.loc.chunkSize = ChunkSizeOf(ragSettings),
                            !.loc.maxResults = MaxResultsOf(inv[i].op.max_results),
                            !.loc.includeMetadata =
                                (inv[i].op.include_metadata # "false"),
                            !.heard = IF j = i
                                      THEN Append(@, Heard("getRagSettings", FALSE, ""))
                                      ELSE @,
                            !.pc = IF j = i THEN "rc search" ELSE @]]
          ELSE inv' = [inv EXCEPT
                         ![i].heard = Append(@, Heard("getRagSettings", TRUE, "")),
                         ![i].pc = "returned",
                         ![i].result = Failure("storage failed", "getRagSettings")]
    /\ UNCHANGED notConcVars

\* getRagSettings and the content_settings read, then chunkSize, maxResults
\* and includeMetadata.
ConcReadSettings(i) ==
    /\ inv[i].pc = "rc settings"
    /\ \E storageOk \in BOOLEAN :
          IF storageOk
          THEN inv' = [inv EXCEPT
                         ![i].loc.chunkSize = ChunkSizeOf(ragSettings),
                         ![i].loc.maxResults = MaxResultsOf(inv[i].op.max_results),
                         ![i].loc.includeMetadata =
                             (inv[i].op.include_metadata # "false"),
                         ![i].heard = Append(@, Heard("getRagSettings", FALSE, "")),
                         ![i].pc = "rc search"]
          ELSE inv' = [inv EXCEPT
                         ![i].heard = Append(@, Heard("getRagSettings", TRUE, "")),
                         ![i].pc = "returned",
                         ![i].result = Failure("storage failed", "getRagSettings")]
    /\ UNCHANGED notConcVars

\* Step 1: the ranking query.
ConcSearch(i) ==
    /\ inv[i].pc = "rc search"
    /\ \/ inv' = [inv EXCEPT
                    ![i].heard = Append(@, Heard("search", TRUE, "")),
                    ![i].pc = "returned",
                    ![i].result = Failure("store failed", "search")]
       \/ \E searchResults \in Rankings(docs, inv[i].loc.maxResults) :
             IF searchResults = <<>>
             THEN inv' = [inv EXCEPT
                            ![i].heard = Append(@, Heard("search", FALSE, searchResults)),
                            ![i].pc = "returned",
                            ![i].result = Success(Context(<<>>, {}, inv[i].op.query))]
             ELSE inv' = [inv EXCEPT
                            ![i].loc.searchResults = searchResults,
                            ![i].heard = Append(@, Heard("search", FALSE, searchResults)),
                            ![i].pc = "rc sample"]
    /\ UNCHANGED notConcVars

\* Step 2, first half: getDocument of the first result.
ConcSampleFirst(i) ==
    /\ inv[i].pc = "rc sample"
    /\ \/ inv' = [inv EXCEPT
                    ![i].heard = Append(@, Heard("getDocument", TRUE, "")),
                    ![i].pc = "returned",
                    ![i].result = Failure("store failed", "getDocument")]
       \/ \E found \in BOOLEAN :
             LET sampleDoc == IF found
                              THEN StoredEntries(docs[inv[i].loc.searchResults[1].doc])
                              ELSE <<>>
             IN  inv' = [inv EXCEPT
                           ![i].loc.projection =
                               BuildTextExtractionProjection(sampleDoc),
                           ![i].heard = Append(@, Heard("getDocument", FALSE, sampleDoc)),
                           ![i].pc = "rc fetch"]
    /\ UNCHANGED notConcVars

\* Step 2, second half, and step 3: the full records, then the assembly with
\* its own charBudget, allChunks and sourcesUsed, and the envelope.
ConcFetchAndAssemble(i) ==
    /\ inv[i].pc = "rc fetch"
    /\ \/ inv' = [inv EXCEPT
                    ![i].heard = Append(@, Heard("fetch", TRUE, "")),
                    ![i].pc = "returned",
                    ![i].result = Failure("store failed", "fetch")]
       \/ \E order \in Orders(Len(inv[i].loc.searchResults)) :
             LET l == inv[i].loc
                 fullDocs == [j \in 1..Len(order) |->
                                LET d == l.searchResults[order[j]].doc
                                IN  Fetched(d, docs[d], l.projection)]
                 charBudget == CharBudgetOf(inv[i].op.max_chars, l.chunkSize,
                                            l.maxResults)
                 st == DocLoop(Assembly(<<>>, charBudget, {}, FALSE), fullDocs,
                               l.searchResults, l.chunkSize, l.includeMetadata)
             IN  inv' = [inv EXCEPT
                           ![i].loc.fullDocs = fullDocs,
                           ![i].heard = Append(@, Heard("fetch", FALSE, order)),
                           ![i].pc = IF st.hangs THEN "hung" ELSE "returned",
                           ![i].result =
                               IF st.hangs THEN NoResult
                               ELSE Success(Context(st.chunks, st.sourcesUsed,
                                                    inv[i].op.query))]
    /\ UNCHANGED notConcVars

ConcInit ==
    /\ inv = [i \in Invocations |-> NoInvocation]
    /\ conn = "ok"
    /\ docs = ToolsDocs
    /\ ragSettings \in RagSettingsStates
    /\ storage = <<>> /\ submitted = NoSubmission /\ formResult = NoFormResult
    /\ store = [i \in DocIds |-> Absent]
    /\ op = NoOp /\ pc = "idle" /\ loc = NoLoc
    /\ sample = NoSample /\ sent = NoSent /\ result = NoResult
    /\ document = <<>> /\ extracted = NotExtracted /\ xpc = "idle"
    /\ text = <<>> /\ maxChunkSize = 1 /\ chunked = NotCalled /\ cpc = "idle"
    /\ value = Undefined /\ tag = NoTag /\ ipc = "idle"

ConcNext ==
    \E i \in Invocations :
        \/ ConcCall(i) \/ ConcReadSettings(i) \/ ConcSearch(i)
        \/ ConcSampleFirst(i) \/ ConcFetchAndAssemble(i)

SpecConcurrent == ConcInit /\ [][ConcNext]_vars

(***************************************************************************)
(* Settings forms submitted one after another, the storage empty at first. *)
(***************************************************************************)
FormInit ==
    /\ storage = [s \in FormSections |-> NoSection]
    /\ submitted = NoSubmission /\ formResult = NoFormResult
    /\ conn = "absent"
    /\ inv = <<>>
    /\ store = [i \in DocIds |-> Absent]
    /\ op = NoOp /\ pc = "idle" /\ loc = NoLoc
    /\ sample = NoSample /\ sent = NoSent /\ result = NoResult
    /\ docs = <<>> /\ ragSettings = NoRagSettings
    /\ document = <<>> /\ extracted = NotExtracted /\ xpc = "idle"
    /\ text = <<>> /\ maxChunkSize = 1 /\ chunked = NotCalled /\ cpc = "idle"
    /\ value = Undefined /\ tag = NoTag /\ ipc = "idle"

SpecSettings == FormInit /\ [][FormNext]_vars

(***************************************************************************)
(* Properties of the chunker.                                              *)
(***************************************************************************)
EndsWithEllipsis(s) ==
    Len(s) >= 3 /\ SubSeq(s, Len(s) - 2, Len(s)) = Ellipsis

RECURSIVE Concat(_)
Concat(ss) == IF ss = <<>> THEN <<>> ELSE Head(ss) \o Concat(Tail(ss))

NonWs(s) == SelectSeq(s, LAMBDA c : ~IsWs(c))

\* Whether s is a subsequence of t: the characters of s occur in t, in order.
RECURSIVE IsSubsequence(_, _)
IsSubsequence(s, t) ==
    IF s = <<>> THEN TRUE
    ELSE IF t = <<>> THEN FALSE
    ELSE IF Head(s) = Head(t) THEN IsSubsequence(Tail(s), Tail(t))
    ELSE IsSubsequence(s, Tail(t))

Returned == cpc = "done" /\ chunked.returns

\* C5: every chunk chunkText returns is at most maxChunkSize long, except a
\* hard-split piece, which ends with the ellipsis marker.
C5_ChunkWithinLimit ==
    Returned =>
        \A i \in 1..Len(chunked.chunks) :
            \/ Len(chunked.chunks[i]) <= maxChunkSize
            \/ EndsWithEllipsis(chunked.chunks[i])

\* The exception of C5 happens: a returned hard-split piece longer than the limit.
C5_Witness ==
    /\ Returned
    /\ \E i \in 1..Len(chunked.chunks) :
          /\ Len(chunked.chunks[i]) > maxChunkSize
          /\ EndsWithEllipsis(chunked.chunks[i])
    /\ \E i \in 1..Len(chunked.chunks) : Len(chunked.chunks[i]) = maxChunkSize

\* C6: the returned chunks, in output order, contain every non-white-space
\* character of the text in the text's order.
C6_ContentKept ==
    Returned => IsSubsequence(NonWs(text), Concat(chunked.chunks))

\* The text of C6 was split by paragraph, by sentence or by the hard limit, and
\* white space was dropped.
C6_Witness ==
    /\ Returned
    /\ Len(chunked.chunks) >= 3
    /\ \E i \in 1..Len(chunked.chunks) : EndsWithEllipsis(chunked.chunks[i])
    /\ Len(NonWs(text)) < Len(text)
    /\ \E i, j \in 1..Len(text) : text[i] = "a" /\ text[j] = "."

\* C7: empty text gives no chunk; a non-empty text no longer than the limit
\* gives the text itself as the only chunk, unchanged.
C7_ShortInput ==
    cpc = "done" =>
        /\ text = <<>> => chunked = [returns |-> TRUE, chunks |-> <<>>]
        /\ (text # <<>> /\ Len(text) <= maxChunkSize)
               => chunked = [returns |-> TRUE, chunks |-> <<text>>]

\* A short text with white space at both ends came back as it was.
C7_Witness ==
    /\ cpc = "done"
    /\ text # <<>> /\ Len(text) <= maxChunkSize
    /\ IsWs(text[1]) /\ IsWs(text[Len(text)])
    /\ \E i \in 1..Len(text) : ~IsWs(text[i])
    /\ chunked.chunks = <<text>>

\* The non-empty trimmed paragraphs of a text, in order.
RECURSIVE TrimmedNonEmpty(_)
TrimmedNonEmpty(ps) ==
    IF ps = <<>> THEN <<>>
    ELSE IF Trim(Head(ps)) = <<>> THEN TrimmedNonEmpty(Tail(ps))
    ELSE <<Trim(Head(ps))>> \o TrimmedNonEmpty(Tail(ps))

Paragraphs(t) == TrimmedNonEmpty(SplitParagraphs(t))

\* The greedy packing C8 states: a paragraph joins the current chunk exactly
\* when current_length + paragraph_length + 2 <= m; otherwise the current chunk
\* is flushed and the paragraph starts the next one.
RECURSIVE GreedyPack(_, _, _)
GreedyPack(ps, cur, m) ==
    IF ps = <<>> THEN (IF cur # <<>> THEN <<cur>> ELSE <<>>)
    ELSE IF Len(cur) + Len(Head(ps)) + 2 <= m
         THEN GreedyPack(Tail(ps),
                         IF cur # <<>> THEN cur \o <<NL, NL>> \o Head(ps) ELSE Head(ps),
                         m)
         ELSE (IF cur # <<>> THEN <<cur>> ELSE <<>>) \o GreedyPack(Tail(ps), Head(ps), m)

ParagraphsFit ==
    /\ Len(text) > maxChunkSize
    /\ \A i \in 1..Len(Paragraphs(text)) : Len(Paragraphs(text)[i]) <= maxChunkSize

\* C8: when the text is longer than the limit and every trimmed paragraph fits,
\* the chunks are the greedy packing of the whole paragraphs, joined by the
\* two-character blank-line separator; no paragraph is split.
C8_GreedyParagraphs ==
    (cpc = "done" /\ ParagraphsFit) =>
        /\ chunked.returns
        /\ chunked.chunks = GreedyPack(Paragraphs(text), <<>>, maxChunkSize)

\* Both cases of C8 in one call: a paragraph joined the current chunk, and a
\* later one flushed it.
C8_Witness ==
    /\ cpc = "done" /\ ParagraphsFit
    /\ Len(chunked.chunks) = 2
    /\ Len(Paragraphs(text)) = 3
    /\ chunked.chunks[1] = Paragraphs(text)[1] \o <<NL, NL>> \o Paragraphs(text)[2]
(***************************************************************************)
(* Properties of the classifier.                                           *)
(***************************************************************************)
\* The rules of the classifier as the specification lists them, in its order,
\* with the tags in the code's spelling (portableText for rich-text, "array of
\* references" for array-of-reference, "array of <kind>" for array-of-<kind>).
\* scalarFirstTag is the tag of a non-empty array whose first element is a
\* string, a number, a boolean or null.
ClassifyRules(v, scalarFirstTag) ==
    CASE v.k \in {"null", "undefined"} -> "unknown"
      [] v.k = "string" /\ LooksLikeDate(v.s) -> "datetime"
      [] v.k = "string" /\ ~LooksLikeDate(v.s) -> "string"
      [] v.k = "number" /\ v.tenths = 0 -> "integer"
      [] v.k = "number" /\ v.tenths # 0 -> "number"
      [] v.k = "boolean" -> "boolean"
      [] v.k = "array" /\ v.items = <<>> -> "array"
      [] v.k = "array" /\ v.items # <<>> ->
            LET first == v.items[1]
                isMapping == first.k = "object"
            IN  IF isMapping /\ first.type = "block" THEN "portableText"
                ELSE IF isMapping /\ first.type = "reference" THEN "array of references"
                ELSE IF isMapping /\ first.type \notin {NoType, ""}
                     THEN "array of " \o first.type
                ELSE IF first.k \in {"object", "array"} THEN "array of objects"
                ELSE scalarFirstTag
      [] v.k = "object" ->
            IF v.type \in {"slug", "image", "reference"} THEN v.type
            ELSE IF v.asset \in {"object", "array"} THEN "image"
            ELSE IF v.type \notin {NoType, ""} THEN v.type
            ELSE "object"

\* C9 as stated: the tag is that of the first matching rule of the
\* specification, whose last array rule gives every other non-empty array
\* array-of-<discriminator or "objects">.
C9_Original ==
    ipc = "done" => tag = ClassifyRules(value, "array of objects")

\* C9, amended: inferFieldType always returns a tag, that of the first matching
\* rule, where a non-empty array whose first element is a string, a number, a
\* boolean or null is tagged array, like the empty array.
C9_Classify ==
    ipc = "done" =>
        /\ tag # NoTag
        /\ tag = ClassifyRules(value, "array")

\* The case C9 is amended for: an array of strings is tagged array.
C9_Witness ==
    /\ ipc = "done"
    /\ value.k = "array" /\ Len(value.items) > 0 /\ value.items[1].k = "string"
    /\ tag = "array"
(***************************************************************************)
(* Properties of the document operations.                                  *)
(***************************************************************************)
BothVariants(b) ==
    /\ store[[base |-> b, draft |-> TRUE]] # Absent
    /\ store[[base |-> b, draft |-> FALSE]] # Absent

\* C4: in every reachable state of the store, between the store calls of an
\* operation and after a failed one included, no base identity has both its
\* draft and its published variant.
C4_NeverBothVariants == \A b \in Bases : ~BothVariants(b)

\* C10: getFieldTypeFromSchema returns the tag of the first sample when the
\* store gives at least one, and unknown when it gives none or the query
\* fails; it never throws, so no createDocument or updateDocument returns a
\* failure raised by the sampling step.
C10_SamplerBestEffort ==
    /\ sample # NoSample =>
          /\ sample.fieldType =
                IF sample.answer.k = "samples" /\ Len(sample.answer.samples) > 0
                THEN InferFieldType(sample.answer.samples[1])
                ELSE "unknown"
          /\ pc # "returned"
    /\ (pc = "returned" /\ ~result.success) =>
          result.thrownAt \notin {"sample body", "sample bio"}

\* The sampling query of a createDocument failed, the tag is unknown, and the
\* call goes on to hand the document to the store.
C10_Witness ==
    /\ op.name = "create_document"
    /\ sample # NoSample /\ sample.answer.k = "throws"
    /\ sample.fieldType = "unknown"
    /\ pc = "create send"
(***************************************************************************)
(* Properties of retrieve_context.                                         *)
(***************************************************************************)
\* A retrieve_context call has returned its context.
Retrieved ==
    /\ pc = "returned" /\ op.name = "retrieve_context"
    /\ result.success /\ loc.fullDocs # <<>>

\* suffix ends s
IsSuffix(suffix, s) ==
    /\ Len(s) >= Len(suffix)
    /\ SubSeq(s, Len(s) - Len(suffix) + 1, Len(s)) = suffix

\* C1: with a positive max_chars, the char_count of the returned blocks,
\* headers and ellipsis markers included, sums to at most max_chars.
C1_WithinBudget ==
    (Retrieved /\ op.max_chars.given /\ op.max_chars.n > 0) =>
        SumCharCount(result.payload.chunks) <= op.max_chars.n

\* C2: with max_chars 0 or omitted no budget applies: every chunk of every
\* ranked document with non-empty flattened text is returned whole.
C2_NoBudget ==
    (Retrieved /\ (~op.max_chars.given \/ op.max_chars.n = 0)) =>
        \A j \in 1..Len(loc.fullDocs) :
            LET doc == loc.fullDocs[j]
                textChunks ==
                    ChunkText(ExtractDocumentText(doc.entries, PtTextFields(doc.entries)),
                              loc.chunkSize).chunks
            IN  \A i \in 1..Len(textChunks) :
                    \E b \in 1..Len(result.payload.chunks) :
                        LET block == result.payload.chunks[b]
                        IN  /\ block.document_id = doc.id
                            /\ block.chunk_index = i - 1
                            /\ IsSuffix(textChunks[i], block.text)

\* C3: the returned blocks are in descending order of their source's
\* relevance score, and the blocks of one source in ascending chunk_index
\* order, whatever the order of the store's full records.
C3_RankOrder ==
    Retrieved =>
        \A a, b \in 1..Len(result.payload.chunks) :
            a < b =>
                LET first == result.payload.chunks[a]
                    second == result.payload.chunks[b]
                IN  /\ first.relevance_score >= second.relevance_score
                    /\ first.document_id = second.document_id =>
                          first.chunk_index < second.chunk_index
(***************************************************************************)
(* Properties of the field resolver.                                       *)
(***************************************************************************)
\* The sampling query answered with a first sample that classifies as rich
\* text.
SampledRichText ==
    /\ sample.answer.k = "samples"
    /\ Len(sample.answer.samples) > 0
    /\ InferFieldType(sample.answer.samples[1]) = "portableText"

\* C11: the value resolveFieldValue hands to createDocument or updateDocument
\* is the block sequence of the text exactly when the first sample of the
\* field classifies as rich text, and the text itself otherwise (a string or
\* array sample, no sample, a null answer, a failed query); the rule is the
\* same for body and for bio.
C11_ResolveBySample ==
    sample # NoSample =>
        LET textValue == IF sample.field = "body" THEN op.body ELSE op.bio
            resolved  == IF sample.field = "body" THEN loc.body ELSE loc.bio
        IN  resolved = IF SampledRichText
                       THEN TextToPortableText(textValue)
                       ELSE StrV(textValue)

\* A two-paragraph bio was resolved against rich-text samples into two blocks
\* after the body of the same call stayed a plain string because the sampling
\* of body failed.
C11_Witness ==
    /\ op.name = "create_document"
    /\ sample # NoSample /\ sample.field = "bio" /\ SampledRichText
    /\ loc.bio.k = "portableText" /\ Len(loc.bio.blocks) = 2
    /\ op.body # <<>> /\ loc.body = StrV(op.body)
(***************************************************************************)
(* Properties of extractDocumentText.                                      *)
(***************************************************************************)
\* The entry is a non-blank string field or a slug field with a current
\* value, and not a system field.
ProducesSection(e) ==
    /\ e.key \notin SystemFields
    /\ \/ e.value.k = "string" /\ \E j \in 1..Len(e.value.s) : ~IsWs(e.value.s[j])
       \/ InferFieldType(e.value) = "slug" /\ e.value.current # <<>>

\* The section of such an entry: its label, then the trimmed string or the
\* current value of the slug.
ExpectedSection(e) ==
    FormatFieldLabel(e.key) \o <<":", " ">>
    \o (IF e.value.k = "string" THEN Trim(e.value.s) ELSE e.value.current)

RECURSIVE ExpectedSections(_)
ExpectedSections(entries) ==
    IF entries = <<>> THEN <<>>
    ELSE (IF ProducesSection(Head(entries))
          THEN <<ExpectedSection(Head(entries))>> ELSE <<>>)
         \o ExpectedSections(Tail(entries))

\* C12: extractDocumentText(d, {}) is the sections of the non-blank string
\* fields and of the slug fields with a current value, in the order of the
\* document, joined by a blank line: no system field (_id, _type, _rev,
\* _createdAt, _updatedAt, _key) has a section, and no field whose value
\* classifies as image or reference, or is an object without the slug
\* discriminator.
C12_OnlyStringsAndSlugs ==
    xpc = "done" =>
        /\ extracted.text = Join(ExpectedSections(document))
        /\ \A j \in 1..Len(document) :
              \/ document[j].key \in SystemFields
              \/ InferFieldType(document[j].value) \in {"image", "reference"}
              \/ document[j].value.k = "object" /\ document[j].value.type # "slug"
              => ~ProducesSection(document[j])

\* A document with an image that has a current property and a slug: the text
\* is the slug's section alone.
C12_Witness ==
    /\ xpc = "done"
    /\ document = <<Entry(KeyTitle, ObjV("image", "object", <<"a">>)),
                    Entry(KeySlug, ObjV("slug", "undefined", <<"a">>))>>
    /\ extracted.text = <<"M", "y", " ", "s", "l", "u", "g", ":", " ", "a">>
(***************************************************************************)
(* Properties of retrieve_context's envelopes.                             *)
(***************************************************************************)
\* The round trips to the store of the retrieve_context call in flight: none
\* before its locals are set.
Calls == IF "calls" \in DOMAIN loc THEN loc.calls ELSE <<>>

\* A round trip of the call in flight to the store threw.
StoreThrew == \E j \in 1..Len(Calls) : Calls[j].threw

\* The envelope is {success: false, error} and nothing else (thrownAt is the
\* model's note of where the error was raised, not a property of it).
FailureOnly ==
    /\ ~result.success
    /\ DOMAIN result = {"k", "success", "error", "thrownAt"}

\* C13: when the ranking query, the getDocument of the first result or the
\* fetch of the full records throws, retrieve_context makes no further round
\* trip and returns {success: false, error} with no chunks and no counts.
C13_AllOrNothing ==
    (op.name = "retrieve_context" /\ StoreThrew) =>
        /\ pc = "returned"
        /\ FailureOnly
        /\ result.error = "store failed"
        /\ Calls[Len(Calls)].threw
        /\ \A j \in 1..(Len(Calls) - 1) : ~Calls[j].threw
        /\ loc.fullDocs = <<>>

\* The ranking query and the getDocument answered, the fetch of the full
\* records threw, and the call returned the failure envelope.
C13_Witness ==
    /\ op.name = "retrieve_context" /\ pc = "returned"
    /\ Len(Calls) = 3 /\ Calls[3] = StoreCall("fetch", TRUE)
    /\ ~Calls[1].threw /\ ~Calls[2].threw
    /\ FailureOnly
(***************************************************************************)
(* Properties of every tool's envelope.                                    *)
(***************************************************************************)
\* The envelope is a success envelope: success and the payload.
SuccessOnly ==
    /\ result.success
    /\ DOMAIN result = {"k", "success", "payload"}

\* C14: no tool call ever raises to its caller: whichever read of the
\* settings storage or round trip to the store fails, the call ends by
\* returning a success envelope or {success: false, error}.
C14_AlwaysEnvelope ==
    /\ pc # "raised"
    /\ result.k \in {"none", "returned"}
    /\ pc = "returned" => result.k = "returned" /\ (SuccessOnly \/ FailureOnly)
    /\ result.k = "returned" => pc = "returned"

\* get_content_catalog in summary mode returned the failure envelope for a
\* store error in the last await of a turn of its loop.
C14_Witness ==
    /\ pc = "returned" /\ op.name = "get_content_catalog"
    /\ FailureOnly /\ result.thrownAt = "fetch recentDocs"

\* C15: with the sanity_connection section absent, or present without
\* project_id, dataset or api_token, no call gets to an await of the store:
\* it returns at once, the error being the configuration message when the
\* settings storage answered, and nothing is read from or written to the
\* store.
C15_NotConfigured ==
    conn # "ok" =>
        /\ pc \in {"idle", "returned"}
        /\ loc = NoLoc /\ sample = NoSample /\ sent = NoSent
        /\ store = [i \in DocIds |-> Absent]
        /\ pc = "returned" =>
              /\ FailureOnly
              /\ result.thrownAt = "getSanityClient"
              /\ result.error # "storage failed" =>
                    result.error =
                        IF conn = "absent"
                        THEN "Sanity connection not configured. Please configure your Sanity settings in the app settings."
                        ELSE "Sanity connection incomplete. Please provide project ID, dataset, and API token."

\* retrieve_context called with the dataset setting missing returned the
\* message of the incomplete connection.
C15_Witness ==
    /\ conn = "no dataset" /\ pc = "returned" /\ op.name = "retrieve_context"
    /\ ~result.success
    /\ result.error = IncompleteMessage
(***************************************************************************)
(* Properties of retrieve_context's sources.                               *)
(***************************************************************************)
\* min(max_results, 20), 5 when max_results is left out.
SourceBound ==
    IF ~op.max_results.given THEN 5
    ELSE IF op.max_results.n > 20 THEN 20 ELSE op.max_results.n

\* The ids of the documents the returned blocks come from.
BlockIds ==
    {result.payload.chunks[j].document_id : j \in 1..Len(result.payload.chunks)}

\* C16: the ranking query of retrieve_context is limited to
\* min(max_results, 20) documents, 5 when max_results is left out; every
\* returned block comes from a document of that ranking, and sources_used is
\* the number of distinct documents among the returned blocks.
C16_SourcesBounded ==
    /\ (op.name = "retrieve_context" /\ "maxResults" \in DOMAIN loc) =>
          /\ loc.maxResults = SourceBound
          /\ Len(loc.searchResults) <= SourceBound
    /\ Retrieved =>
          /\ BlockIds \subseteq
                {loc.searchResults[j].id : j \in 1..Len(loc.searchResults)}
          /\ result.payload.sources_used = Cardinality(BlockIds)
          /\ Cardinality(BlockIds) <= SourceBound

\* Two documents were ranked and fetched with no budget; one of them has no
\* text, and one source is counted.
C16_Witness ==
    /\ Retrieved
    /\ op.max_chars = Arg(0)
    /\ Len(loc.fullDocs) = 2
    /\ \E j \in 1..2 : loc.fullDocs[j].entries = <<>>
    /\ result.payload.sources_used = 1
(***************************************************************************)
(* Properties of retrieve_context's blocks.                                *)
(***************************************************************************)
IsPrefix(prefix, s) ==
    /\ Len(s) >= Len(prefix)
    /\ SubSeq(s, 1, Len(prefix)) = prefix

\* The header line of a block, with the blank line that follows it.
HeaderOf(block) ==
    <<"[">> \o block.document_type \o <<"]", " ">> \o block.title
    \o <<" ", "(", "I", "D", ":", " ">> \o block.document_id \o <<")", NL, NL>>

\* The budget the call starts with.
InitialBudget == CharBudgetOf(op.max_chars, loc.chunkSize, loc.maxResults)

DocOf(block) ==
    loc.fullDocs[CHOOSE j \in 1..Len(loc.fullDocs) :
                    loc.fullDocs[j].id = block.document_id]

\* The chunk of the document's text that the block was made from.
ChunkOf(block) ==
    ChunkText(ExtractDocumentText(DocOf(block).entries,
                                  PtTextFields(DocOf(block).entries)),
              loc.chunkSize).chunks[block.chunk_index + 1]

\* The text of the block after its header, when it has one.
BodyOf(block) ==
    IF loc.includeMetadata /\ block.chunk_index = 0
    THEN SliceFrom(block.text, Len(HeaderOf(block)))
    ELSE block.text

\* The block does not hold its chunk as chunkText gave it.
BudgetTruncated(block) == BodyOf(block) # ChunkOf(block)

\* The budget left when block j was emitted.
RemainingBefore(j) ==
    InitialBudget - SumCharCount(SubSeq(result.payload.chunks, 1, j - 1))

\* C18: a block is emitted only while the remaining budget is positive; it
\* holds its whole chunk when the chunk fits the remaining budget, and
\* otherwise the chunk cut by slice(0, remaining - 3) followed by the
\* marker, and then it is the last block of the result, so that at most one
\* returned block is truncated.
C18_TruncationEndsEmission ==
    Retrieved =>
        LET blocks == result.payload.chunks
        IN  \A j \in 1..Len(blocks) :
              /\ RemainingBefore(j) > 0
              /\ IF Len(ChunkOf(blocks[j])) <= RemainingBefore(j)
                 THEN ~BudgetTruncated(blocks[j])
                 ELSE /\ BudgetTruncated(blocks[j])
                      /\ BodyOf(blocks[j])
                           = SliceTo(ChunkOf(blocks[j]), RemainingBefore(j) - 3)
                             \o Ellipsis
                      /\ j = Len(blocks)

\* Three blocks were returned, the last one truncated.
C18_Witness ==
    /\ Retrieved
    /\ Len(result.payload.chunks) = 3
    /\ BudgetTruncated(result.payload.chunks[3])
    /\ ~BudgetTruncated(result.payload.chunks[1])
\* The ranking query of the call in flight answered, with no document.
NothingRanked ==
    /\ op.name = "retrieve_context"
    /\ Calls # <<>> /\ ~Calls[1].threw
    /\ loc.searchResults = <<>>

\* C19: when the ranking query matches no document, retrieve_context has
\* returned {success: true} with no chunks, total_chunks, total_chars and
\* sources_used all 0, and the ranking query is the only round trip to the
\* store it has made.
C19_NothingRanked ==
    NothingRanked =>
        /\ pc = "returned"
        /\ SuccessOnly
        /\ result.payload.chunks = <<>>
        /\ result.payload.total_chunks = 0
        /\ result.payload.total_chars = 0
        /\ result.payload.sources_used = 0
        /\ result.payload.query = op.query
        /\ Calls = <<StoreCall("search", FALSE)>>

\* The dataset has two documents, none matched, and the call returned.
C19_Witness ==
    /\ NothingRanked /\ pc = "returned"
    /\ Len(docs) = 2
    /\ result.success
(***************************************************************************)
(* Properties of extra_fields.                                             *)
(***************************************************************************)
\* The call in flight is a create_document or update_document whose
\* extra_fields string is not JSON.
MalformedExtra ==
    /\ op.name \in {"create_document", "update_document"}
    /\ op.extra.k = "malformed"

\* C20: a create_document or update_document whose extra_fields does not
\* parse hands the store what the other parameters alone give (the draft
\* prefix unless publish is true, the document_type, the resolved body and
\* bio; for an update the patch of the other fields), fails only where the
\* call without extra_fields fails (settings, store, or no field to update),
\* and never because of the parse.
C20_MalformedExtraIgnored ==
    MalformedExtra =>
        /\ (sent # NoSent /\ op.name = "create_document") =>
              sent = [k |-> "document",
                      id |-> IF op.publish = "true"
                             THEN [k |-> "none"] ELSE [k |-> "prefix"],
                      type |-> op.type, body |-> loc.body, bio |-> loc.bio,
                      extra |-> FALSE]
        /\ (sent # NoSent /\ op.name = "update_document") =>
              sent = [k |-> "patch", id |-> op.id, other |-> op.other,
                      body |-> loc.body, bio |-> loc.bio, extra |-> FALSE]
        /\ (pc = "returned" /\ ~result.success) =>
              /\ result.thrownAt \in {"getSanityClient", "getDocument",
                                       "create", "patch", ""}
              /\ result.thrownAt = "" =>
                    /\ op.name = "update_document"
                    /\ result.error = "No fields to update"
                    /\ ~op.other /\ op.body = <<>> /\ op.bio = <<>>
        /\ (pc = "update commit" \/ (pc = "returned" /\ sent # NoSent
                                      /\ op.name = "update_document")) =>
              (op.other \/ op.body # <<>> \/ op.bio # <<>>)

\* A create_document with a body and an extra_fields string that does not
\* parse returned the created document.
C20_Witness ==
    /\ MalformedExtra /\ op.name = "create_document"
    /\ op.body # <<>>
    /\ pc = "returned" /\ result.success
    /\ sent # NoSent /\ ~sent.extra

(***************************************************************************)
(* Properties of create_document as a draft.                               *)
(***************************************************************************)
\* C21: a create_document with publish false or omitted hands the store a
\* document whose identity carries the reserved draft prefix and whose type
\* is the requested document_type, whatever the other parameters are.
C21_AlwaysDraft ==
    (/\ op.name = "create_document"
     /\ op.publish \in {"omitted", "false"}
     /\ sent # NoSent) =>
        /\ sent.type = op.type
        /\ \/ sent.id.k = "prefix"
           \/ sent.id.k = "explicit" /\ sent.id.id.draft

(***************************************************************************)
(* Properties of get_document_text.                                        *)
(***************************************************************************)
\* A get_document_text call returned its chunks.
TextReturned ==
    /\ op.name = "get_document_text"
    /\ pc = "returned" /\ result.success

\* C22: a get_document_text with a positive max_chars returns chunks whose
\* total_chars is at most max_chars.
C22_WithinMaxChars ==
    (/\ TextReturned
     /\ op.max_chars.given /\ op.max_chars.n > 0) =>
        result.payload.total_chars <= op.max_chars.n

\* C23: a get_document_text with max_chars left out returns chunks whose
\* total_chars is at most the configured content_chunk_size; no budget at
\* all is applied only for max_chars = 0.
C23_DefaultBudget ==
    (TextReturned /\ ~op.max_chars.given) =>
        result.payload.total_chars <= ChunkSizeOf(ragSettings)

(***************************************************************************)
(* Properties of the returned blocks' counts and indices.                  *)
(***************************************************************************)
\* A retrieve_context call returned its blocks.
ContextReturned ==
    /\ op.name = "retrieve_context"
    /\ pc = "returned" /\ result.success

\* char_count is the length of the text and the index is below total_chunks.
CountedAndIndexed(block) ==
    /\ block.char_count = Len(block.text)
    /\ block.chunk_index >= 0
    /\ block.chunk_index < block.total_chunks

\* The blocks of every document are one run of the sequence whose indices
\* count up from 0 by one.
GroupedFromZero(blocks) ==
    /\ \A j \in 1..Len(blocks) :
          IF j > 1 /\ blocks[j - 1].document_id = blocks[j].document_id
          THEN blocks[j].chunk_index = blocks[j - 1].chunk_index + 1
          ELSE blocks[j].chunk_index = 0
    /\ \A i, k \in 1..Len(blocks) :
          (i < k /\ blocks[i].document_id = blocks[k].document_id) =>
              \A j \in i..k : blocks[j].document_id = blocks[i].document_id

\* C24: every block of retrieve_context and every chunk of get_document_text
\* has char_count equal to the length of its text and a chunk_index below
\* its total_chunks; the indices of one document's blocks are 0, 1, ..., k-1
\* in this order with no gap.
C24_CountsAndIndices ==
    /\ ContextReturned =>
          /\ \A j \in 1..Len(result.payload.chunks) :
                CountedAndIndexed(result.payload.chunks[j])
          /\ GroupedFromZero(result.payload.chunks)
    /\ TextReturned =>
          \A j \in 1..Len(result.payload.chunks) :
              /\ CountedAndIndexed(result.payload.chunks[j])
              /\ result.payload.chunks[j].chunk_index = j - 1

\* A retrieve_context returned blocks of two documents, the first of which
\* gave more than one block.
C24_Witness ==
    /\ ContextReturned
    /\ Len(result.payload.chunks) >= 3
    /\ result.payload.chunks[2].document_id = result.payload.chunks[1].document_id
    /\ \E j \in 3..Len(result.payload.chunks) :
          result.payload.chunks[j].document_id # result.payload.chunks[1].document_id

(***************************************************************************)
(* Properties of concurrent retrieve_context invocations.                  *)
(***************************************************************************)
\* What retrieveContext returns when it runs alone with the parameters of
\* call and is answered heard by storage and the store, await by await.
RunAlone(call, heard) ==
    LET client == GetSanityClient(conn, ~heard[1].threw)
        chunkSize == ChunkSizeOf(ragSettings)
        maxResults == MaxResultsOf(call.max_results)
        includeMetadata == call.include_metadata # "false"
        searchResults == heard[3].answer
        projection == BuildTextExtractionProjection(heard[4].answer)
        order == heard[5].answer
        fullDocs == [j \in 1..Len(order) |->
                       LET d == searchResults[order[j]].doc
                       IN  Fetched(d, docs[d], projection)]
        st == DocLoop(Assembly(<<>>, CharBudgetOf(call.max_chars, chunkSize, maxResults),
                               {}, FALSE),
                      fullDocs, searchResults, chunkSize, includeMetadata)
    IN  IF client # "ok" THEN Failure(client, "getSanityClient")
        ELSE IF heard[2].threw THEN Failure("storage failed", "getRagSettings")
        ELSE IF heard[3].threw THEN Failure("store failed", "search")
        ELSE IF searchResults = <<>> THEN Success(Context(<<>>, {}, call.query))
        ELSE IF heard[4].threw THEN Failure("store failed", "getDocument")
        ELSE IF heard[5].threw THEN Failure("store failed", "fetch")
        ELSE Success(Context(st.chunks, st.sourcesUsed, call.query))

\* The awaits an invocation was answered at, in order.
Awaits(i) == [j \in 1..Len(inv[i].heard) |-> inv[i].heard[j].await]

\* C25: of two retrieve_context invocations whose awaits interleave in any
\* order, each returns what it returns when run alone with the same
\* parameters against the same answers of storage and the store; no
\* invocation's budget, blocks or other locals depend on the other's.
C25_InvocationsIndependent ==
    \A i \in Invocations :
        inv[i].pc = "returned" =>
            /\ Awaits(i) = SubSeq(<<"getSanityClient", "getRagSettings", "search",
                                    "getDocument", "fetch">>, 1, Len(inv[i].heard))
            /\ inv[i].result = RunAlone(inv[i].op, inv[i].heard)

\* The second invocation returned its blocks while the first, called with
\* another max_chars and include_metadata, is suspended at its last await
\* with its ranking and projection in hand.
C25_Witness ==
    /\ inv[1].pc = "rc fetch"
    /\ inv[2].pc = "returned" /\ inv[2].result.success
    /\ inv[1].op.max_chars # inv[2].op.max_chars
    /\ inv[1].op.include_metadata # inv[2].op.include_metadata
    /\ Len(inv[2].result.payload.chunks) >= 2
    /\ inv[1].loc.searchResults # inv[2].loc.searchResults

(***************************************************************************)
(* Properties of the look-up of a document that is absent.                 *)
(***************************************************************************)
\* The awaits at which publish_document, unpublish_document, get_document
\* and get_document_text look their document up.
LookupAwaits == {"publish get", "unpublish get", "get document", "text get"}

\* The id the call in flight looks up, and whether the store has it.
LookedUp ==
    IF op.name = "publish_document" THEN DraftIdOf(op.id)
    ELSE IF op.name = "unpublish_document" THEN PublishedIdOf(op.id)
    ELSE IF op.name = "get_document" THEN op.id
    ELSE IdOf(op.doc)
LookedUpAbsent ==
    IF op.name = "get_document_text" THEN op.doc > Len(docs)
    ELSE store[LookedUp] = Absent

\* C26: when publish_document finds no draft, unpublish_document no published
\* document, get_document or get_document_text no document under the id,
\* the step that looked the id up ends the call: it returns {success: false}
\* with an error naming the id (or the store's failure when the look-up
\* itself threw), it is the call's only round trip to the store, nothing is
\* handed to the store for create, replace, patch or delete, and the store
\* is as it was.
C26_AbsentReported ==
    [][(pc \in LookupAwaits /\ LookedUpAbsent /\ pc' # pc) =>
          /\ pc' = "returned" /\ ~result'.success
          /\ result'.thrownAt \in {"", "getDocument"}
          /\ result'.thrownAt = "" => result'.error = [notFound |-> LookedUp]
          /\ store' = store /\ docs' = docs
          /\ sent = NoSent /\ sent' = NoSent
          /\ op.name = "get_document_text" =>
                /\ Len(loc'.calls) = 1
                /\ loc'.calls[1].await = "getDocument"]_vars

\* A publish_document for an id whose published document exists and whose
\* draft does not returned the not-found error naming the draft id.
C26_Witness ==
    /\ op.name = "publish_document"
    /\ pc = "returned" /\ ~result.success /\ result.thrownAt = ""
    /\ result.error = [notFound |-> DraftIdOf(op.id)]
    /\ store[DraftIdOf(op.id)] = Absent
    /\ store[PublishedIdOf(op.id)] # Absent
    /\ sent = NoSent

(***************************************************************************)
(* Termination of the chunker.                                             *)
(***************************************************************************)
\* C27: chunkText returns for every text and every positive limit, the
\* limits of 3 and less included: its hard-split loop ends.
C27_Terminates == cpc = "done" => chunked.returns

(***************************************************************************)
(* Properties of the text of a fetched document.                           *)
(***************************************************************************)
\* The entries of a fetched record that are the document's own fields.
Own(d) ==
    SelectSeq(d.entries,
              LAMBDA e : \A j \in 1..Len(loc.projection) :
                            e.key # loc.projection[j] \o TextSuffix)

\* C28: the text retrieve_context extracts from a fetched record is the text
\* of the document's own fields, a rich-text field giving the section
\* labeled with its name that holds the store's flattened text; the derived
\* entry (field name + Text) that carries the flattened text gives no
\* section of its own.
C28_FlattenedOnce ==
    Retrieved =>
        \A j \in 1..Len(loc.fullDocs) :
            LET d == loc.fullDocs[j]
            IN  ExtractDocumentText(d.entries, PtTextFields(d.entries))
                  = ExtractDocumentText(Own(d), PtTextFields(d.entries))

(***************************************************************************)
(* Properties of the flattening projection.                                *)
(***************************************************************************)
\* The stored fields of the first-ranked document and of a fetched record's
\* document.
FirstRanked == docs[loc.searchResults[1].doc]
FieldsOf(d) == docs[CHOOSE i \in 1..Len(docs) : IdOf(i) = d.id]

\* The names of the rich-text fields among stored fields.
RichNames(fields) ==
    {fields[j].key : j \in {k \in 1..Len(fields) : fields[k].flat.k = "string"}}

\* The text extracted from the fetched record d has the section of field f
\* holding f's flattened text.
Contributes(d, f) ==
    LET sections == Sections(d.entries, PtTextFields(d.entries))
    IN  \E k \in 1..Len(sections) :
           sections[k] = FormatFieldLabel(f.key) \o <<":", " ">> \o Trim(f.flat.s)

\* No returned block comes from the fetched record d.
Skipped(d) ==
    \A b \in 1..Len(result.payload.chunks) :
        result.payload.chunks[b].document_id # d.id

\* C29 as stated: a rich-text field of a lower-ranked document contributes
\* text if and only if the first-ranked document has a rich-text field of
\* the same name, and a lower-ranked document with no other text is skipped.
C29_FromFirstRanked ==
    Retrieved =>
        \A j \in 1..Len(loc.fullDocs) :
            LET d == loc.fullDocs[j]
            IN  d.id # loc.searchResults[1].id =>
                  /\ \A k \in 1..Len(FieldsOf(d)) :
                        FieldsOf(d)[k].flat.k = "string" =>
                            (Contributes(d, FieldsOf(d)[k])
                               <=> FieldsOf(d)[k].key \in RichNames(FirstRanked))
                  /\ ExtractDocumentText(d.entries, PtTextFields(d.entries)) = <<>>
                        => Skipped(d)

\* C29: the projection is built once, from the record getDocument returns
\* for the first-ranked id, and is empty when getDocument returns nothing.
\* A rich-text field of any ranked document contributes text if and only if
\* the projection has its name, that is, if and only if the first-ranked
\* document was returned and has a rich-text field of that name; a document
\* left with no text is skipped.
C29_FromSampledFirst ==
    Retrieved =>
        /\ loc.projection
             \in {<<>>, BuildTextExtractionProjection(StoredEntries(FirstRanked))}
        /\ \A j \in 1..Len(loc.fullDocs) :
              LET d == loc.fullDocs[j]
              IN  /\ \A k \in 1..Len(FieldsOf(d)) :
                        FieldsOf(d)[k].flat.k = "string" =>
                            (Contributes(d, FieldsOf(d)[k])
                               <=> \E p \in 1..Len(loc.projection) :
                                      loc.projection[p] = FieldsOf(d)[k].key)
                  /\ ExtractDocumentText(d.entries, PtTextFields(d.entries)) = <<>>
                        => Skipped(d)

\* Two documents were ranked and fetched; the first has a rich-text body
\* and the projection names it; the second has only a rich-text bio, gave no
\* text and no block, and the blocks returned come from the first.
C29_Witness ==
    /\ Retrieved
    /\ Len(loc.fullDocs) = 2
    /\ loc.projection = <<KeyBody>>
    /\ \E j \in 1..2 :
          /\ loc.fullDocs[j].id # loc.searchResults[1].id
          /\ RichNames(FieldsOf(loc.fullDocs[j])) = {KeyBio}
          /\ Skipped(loc.fullDocs[j])
    /\ result.payload.chunks # <<>>

(***************************************************************************)
(* Properties of onSettingsForm.                                           *)
(***************************************************************************)
\* The stored sanity_connection section, if any, has the three settings
\* non-blank, and getSanityClient finds it complete.
StoredConnectionValid(st, c) ==
    /\ st["sanity_connection"] # NoSection =>
          /\ ~Blank(st["sanity_connection"].project_id)
          /\ ~Blank(st["sanity_connection"].dataset)
          /\ ~Blank(st["sanity_connection"].api_token)
    /\ GetSanityClient(c, TRUE) # IncompleteMessage

\* The fields of a sanity_connection form that are missing or blank.
Offending(formData) ==
    {f \in {"project_id", "dataset", "api_token"} :
        \/ formData[f] = Undefined
        \/ \A j \in 1..Len(formData[f].s) : formData[f].s[j] \in {" ", NL}}

\* C30: from empty storage on, the stored sanity_connection section (if any)
\* has non-blank project_id, dataset and api_token.  A sanity_connection
\* submission with any of the three missing or blank returns one error per
\* offending field and leaves the storage as it was; any other submission
\* that returns reports no error and has put the submitted data under its
\* section, the other sections untouched.
C30_ValidatedSettings ==
    [][/\ StoredConnectionValid(storage, conn)
       /\ StoredConnectionValid(storage', conn')
       /\ LET s == submitted'.section
              f == submitted'.formData
          IN  IF s = "sanity_connection" /\ Offending(f) # {}
              THEN /\ formResult'.k = "returned"
                   /\ Len(formResult'.errors) = Cardinality(Offending(f))
                   /\ {formResult'.errors[j].field :
                          j \in 1..Len(formResult'.errors)} = Offending(f)
                   /\ storage' = storage
              ELSE IF formResult'.k = "returned"
              THEN /\ formResult'.errors = <<>>
                   /\ storage' = [storage EXCEPT ![s] = f]
              ELSE storage' = storage]_vars

\* A sanity_connection form with a whitespace-only project_id and no dataset
\* got two errors while a valid connection and other settings were stored.
C30_Witness ==
    /\ submitted.section = "sanity_connection"
    /\ submitted.formData.project_id = StrV(<<" ">>)
    /\ submitted.formData.dataset = Undefined
    /\ ~Blank(submitted.formData.api_token)
    /\ formResult.k = "returned" /\ Len(formResult.errors) = 2
    /\ storage["sanity_connection"] # NoSection
    /\ storage["rag_settings"] # NoSection
    /\ conn = "ok"
====
